---- MODULE Spec2Model ----
(***************************************************************************)
(* Model of the FIDC ETL pipeline: the disk cache (CacheManager), the B3   *)
(* API client with its urllib3 retry session (B3ApiClient) and the batch   *)
(* orchestrator (FIDCETLService).                                          *)
(*                                                                         *)
(* Text is a sequence of one-character strings, bytes are integers 0..255, *)
(* time is in whole seconds.                                               *)
(***************************************************************************)
EXTENDS Integers, Sequences, FiniteSets, TLC

VARIABLES
    cnpjs,        \* the batch handed to process_and_validate
    pc,           \* position of the single worker
    idx,          \* enumerate() index i of the current identifier (0-based)
    resultados,   \* process_batch: the list of per-identifier dicts
    sleeps,       \* number of time.sleep(DELAY_ENTRE_REQUISICOES) calls taken
    now,          \* time.time()
    cache,        \* the .cache_api directory: file name -> [data, mtime]
    steps,        \* calls made so far for the current identifier: [step, ok, http]
    df_docs,      \* process_single_cnpj locals: df_docs / df_mensal
    doc,          \*   the selected descriptor
    xml_content,  \*   the downloaded bytes
    df,           \* the table built by process_batch / returned by process_and_validate
    last_call,    \* the direct call of the client or cache API just made, and its result
    written       \* per key, the last direct CacheManager.set not followed by a delete

vars == <<cnpjs, pc, idx, resultados, sleeps, now, cache,
          steps, df_docs, doc, xml_content, df, last_call, written>>

\* Python's None, and Optional values: None or <<v>>
None == << >>
Some(v) == <<v>>

\* ------------------------------------------------------------------------
\* Bounds of the model
\* ------------------------------------------------------------------------
MaxBatch == 2          \* longest identifier list
MaxDays == 1           \* whole days the clock advances over a sequence of client calls
MaxSeconds == 1        \* single seconds it advances beyond a whole day
MaxCacheNow == 2       \* the same, when the cache is exercised directly

\* ------------------------------------------------------------------------
\* Text helpers (str methods used by the code)
\* ------------------------------------------------------------------------
Digits == {"0", "1", "2", "3", "4", "5", "6", "7", "8", "9"}
LowerLetters == {"a", "b", "c", "d", "e", "f", "g", "h", "i", "j", "k", "l", "m",
                 "n", "o", "p", "q", "r", "s", "t", "u", "v", "w", "x", "y", "z"}
UpperLetters == {"A", "B", "C", "D", "E", "F", "G", "H", "I", "J", "K", "L", "M",
                 "N", "O", "P", "Q", "R", "S", "T", "U", "V", "W", "X", "Y", "Z"}

isalnum(c) == c \in Digits \cup LowerLetters \cup UpperLetters

\* ------------------------------------------------------------------------
\* CacheManager
\* ------------------------------------------------------------------------
\* safe_key = "".join(c if c.isalnum() or c in ('-', '_') else '_' ...); path = safe_key + ".pickle"
get_file_path(key) ==
    [i \in DOMAIN key |-> IF isalnum(key[i]) \/ key[i] \in {"-", "_"} THEN key[i] ELSE "_"]
        \o <<".pickle">>

\* The content of a cache file: what pickle.dump wrote, bytes that pickle.load rejects
\* (Garbage), or a file that open() refuses both to read and to write (Denied).
pickle_dump(value) == <<"pickle", value>>
pickle_load(blob) == blob[2]
Garbage == <<"garbage", << >>>>
Denied == <<"denied", << >>>>

cache_get_expiring_at_max_age(files, key, max_age_seconds, t) ==
    LET file_path == get_file_path(key) IN
    IF file_path \notin DOMAIN files THEN None
    ELSE IF max_age_seconds # None /\ t - files[file_path].mtime >= max_age_seconds[1] THEN None
    ELSE IF files[file_path].data[1] # "pickle" THEN None
    ELSE Some(pickle_load(files[file_path].data))

cache_get_trusting_file(files, key, max_age_seconds, t) ==
    LET file_path == get_file_path(key) IN
    IF file_path \notin DOMAIN files THEN None
    ELSE IF max_age_seconds # None /\ t - files[file_path].mtime > max_age_seconds[1] THEN None
    ELSE Some(pickle_load(files[file_path].data))

\* CacheManager.get: None when the file is missing or older than max_age_seconds, and
\* (except Exception: return None) when open() or pickle.load() raises
cache_get(files, key, max_age_seconds, t) ==
    LET file_path == get_file_path(key) IN
    IF file_path \notin DOMAIN files THEN None
    ELSE IF max_age_seconds # None /\ t - files[file_path].mtime > max_age_seconds[1] THEN None
    ELSE IF files[file_path].data[1] # "pickle" THEN None
    ELSE Some(pickle_load(files[file_path].data))

\* a get that removes the file it judges expired
cache_after_get_evicting(files, key, max_age_seconds, t) ==
    IF /\ get_file_path(key) \in DOMAIN files
       /\ max_age_seconds # None
       /\ t - files[get_file_path(key)].mtime > max_age_seconds[1]
    THEN [f \in DOMAIN files \ {get_file_path(key)} |-> files[f]]
    ELSE files

\* the directory after CacheManager.get: get calls exists(), stat(), open(file_path, "rb")
\* and pickle.load, none of which writes, on every path through it
cache_after_get(files, key, max_age_seconds, t) == files

\* CacheManager.set: (over)writes the file; its mtime becomes the current time.  When
\* open() raises, the exception is logged and the directory is left as it was.
cache_set(files, key, value, t) ==
    LET file_path == get_file_path(key) IN
    IF file_path \in DOMAIN files /\ files[file_path].data = Denied THEN files
    ELSE [f \in DOMAIN files \cup {file_path} |->
             IF f = file_path THEN [data |-> pickle_dump(value), mtime |-> t] ELSE files[f]]

\* CacheManager.delete: removes the file when it exists
cache_delete(files, key) ==
    LET file_path == get_file_path(key) IN
    [f \in DOMAIN files \ {file_path} |-> files[f]]

EmptyDir == [f \in {} |-> None]

\* CacheManager.clear_all: removes every *.pickle file
cache_clear_all(files) == EmptyDir

\* ------------------------------------------------------------------------
\* requests.Session mounted with HTTPAdapter(max_retries=Retry(...))
\* ------------------------------------------------------------------------
\* _create_retry_session(retries=3, ...): Retry(total=retries, read=retries, connect=retries)
retries == 3
status_forcelist == {429, 500, 502, 503, 504}

\* A server answer to one attempt: an HTTP status with a body, or no answer.
Answer(kind, code, content) == [kind |-> kind, code |-> code, content |-> content]
Timeout == Answer("timeout", 0, << >>)
ConnectionRefused == Answer("connection", 0, << >>)
Status(code) == Answer("status", code, << >>)
Ok(content) == Answer("status", 200, content)

is_retry_any_error(code) == code >= 400

\* urllib3 Retry.is_retry for a GET: the status is in status_forcelist
is_retry(code) == code \in status_forcelist

\* urllib3 Retry.increment: each failed attempt takes one from total and from its own counter
increment(r, answer) ==
    [total   |-> r.total - 1,
     connect |-> IF answer.kind = "connection" THEN r.connect - 1 ELSE r.connect,
     read    |-> IF answer.kind = "timeout" THEN r.read - 1 ELSE r.read]

is_exhausted_at_zero(r) == r.total <= 0 \/ r.connect <= 0 \/ r.read <= 0

\* urllib3 Retry.is_exhausted: some counter fell below zero
is_exhausted(r) == r.total < 0 \/ r.connect < 0 \/ r.read < 0

\* the server's answer to attempt i: run[i], and the last answer of run from then on
answer_at(run, i) == run[IF i <= Len(run) THEN i ELSE Len(run)]

\* HTTPConnectionPool.urlopen under the Retry object: attempt i of the request gets the
\* server's answer answer_at(run, i).  The result is what session.get returns or raises, with the
\* number of attempts made.
RECURSIVE urlopen(_, _, _)
urlopen(run, i, r) ==
    LET answer == answer_at(run, i) IN
    IF answer.kind = "status" /\ ~is_retry(answer.code)
    THEN [attempts |-> i, raised |-> None, resp |-> answer]
    ELSE LET r2 == increment(r, answer) IN
         IF is_exhausted(r2)
         THEN [attempts |-> i,
               raised   |-> Some(IF answer.kind = "status" THEN "RetryError"
                                 ELSE IF answer.kind = "timeout" THEN "ConnectionError(ReadTimeout)"
                                 ELSE "ConnectionError"),
               resp     |-> answer]
         ELSE urlopen(run, i + 1, r2)

session_get(run) == urlopen(run, 1, [total |-> retries, connect |-> retries, read |-> retries])

\* Response.raise_for_status: HTTPError for 4xx and 5xx
raise_for_status(resp) == IF resp.code >= 400 /\ resp.code < 600 THEN Some("HTTPError") ELSE None

\* ------------------------------------------------------------------------
\* base64.b64decode over the base64 alphabet (a character is its sextet 0..63)
\* ------------------------------------------------------------------------
RECURSIVE b64_groups(_)
b64_groups(s) ==
    IF Len(s) = 0 THEN << >>
    ELSE LET n == s[1] * 262144 + s[2] * 4096 + s[3] * 64 + s[4] IN
         <<n \div 65536, (n \div 256) % 256, n % 256>> \o b64_groups(SubSeq(s, 5, Len(s)))

\* binascii.Error ("Incorrect padding") unless the length is a multiple of four
b64decode(s) == IF Len(s) % 4 # 0 THEN None ELSE Some(b64_groups(s))

\* ------------------------------------------------------------------------
\* str helpers
\* ------------------------------------------------------------------------
UpperSeq == <<"A", "B", "C", "D", "E", "F", "G", "H", "I", "J", "K", "L", "M",
              "N", "O", "P", "Q", "R", "S", "T", "U", "V", "W", "X", "Y", "Z">>
LowerSeq == <<"a", "b", "c", "d", "e", "f", "g", "h", "i", "j", "k", "l", "m",
              "n", "o", "p", "q", "r", "s", "t", "u", "v", "w", "x", "y", "z">>
DigitSeq == <<"0", "1", "2", "3", "4", "5", "6", "7", "8", "9">>

char_upper(c) == IF c \in LowerLetters THEN UpperSeq[CHOOSE i \in 1..26 : LowerSeq[i] = c] ELSE c
char_lower(c) == IF c \in UpperLetters THEN LowerSeq[CHOOSE i \in 1..26 : UpperSeq[i] = c] ELSE c
str_upper(s) == [i \in DOMAIN s |-> char_upper(s[i])]
str_lower(s) == [i \in DOMAIN s |-> char_lower(s[i])]

isspace(c) == c \in {" ", "\t", "\n"}

\* str.strip()
str_strip(s) ==
    IF \A i \in DOMAIN s : isspace(s[i]) THEN << >>
    ELSE LET a == CHOOSE i \in DOMAIN s : ~isspace(s[i]) /\ \A j \in 1..(i - 1) : isspace(s[j])
             b == CHOOSE i \in DOMAIN s : ~isspace(s[i]) /\ \A j \in (i + 1)..Len(s) : isspace(s[j])
         IN SubSeq(s, a, b)

\* Series.str.contains(pat, case=False) for a pattern without regex metacharacters
str_contains_nocase(s, pat) ==
    \E i \in 1..(Len(s) - Len(pat) + 1) :
        str_lower(SubSeq(s, i, i + Len(pat) - 1)) = str_lower(pat)

digit_value(c) == (CHOOSE i \in 1..10 : DigitSeq[i] = c) - 1

RECURSIVE int_of_digits(_)
int_of_digits(s) ==
    IF Len(s) = 0 THEN 0 ELSE int_of_digits(SubSeq(s, 1, Len(s) - 1)) * 10 + digit_value(s[Len(s)])

all_digits(s) == Len(s) > 0 /\ \A i \in DOMAIN s : s[i] \in Digits

\* ------------------------------------------------------------------------
\* B3ApiClient
\* ------------------------------------------------------------------------
InformeMensal == <<"I", "n", "f", "o", "r", "m", "e", " ", "M", "e", "n", "s", "a", "l">>
DocsPrefix == <<"d", "o", "c", "s", "_">>
XmlPrefix == <<"x", "m", "l", "_">>
MaxAgeDocs == 86400

Result(sucesso, value, erro, files, attempts) ==
    [sucesso |-> sucesso, value |-> value, erro |-> erro, files |-> files, attempts |-> attempts]

\* a discovery that stores whatever list the server returned before testing it
buscar_documentos_caching_empty(files, cnpj, run, t) ==
    IF cache_get(files, DocsPrefix \o cnpj, Some(MaxAgeDocs), t) # None
    THEN Result(TRUE, cache_get(files, DocsPrefix \o cnpj, Some(MaxAgeDocs), t)[1], "", files, 0)
    ELSE IF session_get(run).raised # None
    THEN Result(FALSE, << >>, "Erro busca: " \o session_get(run).raised[1], files,
                session_get(run).attempts)
    ELSE IF raise_for_status(session_get(run).resp) # None
    THEN Result(FALSE, << >>, "Erro busca: HTTPError", files, session_get(run).attempts)
    ELSE Result(session_get(run).resp.content # << >>, session_get(run).resp.content,
                IF session_get(run).resp.content = << >> THEN "Nenhum documento encontrado"
                ELSE "",
                cache_set(files, DocsPrefix \o cnpj, session_get(run).resp.content, t),
                session_get(run).attempts)

\* B3ApiClient.buscar_documentos: run is the server's answers to the attempts of the GET
buscar_documentos(files, cnpj, run, t) ==
    LET cache_key == DocsPrefix \o cnpj
        cached_data == cache_get(files, cache_key, Some(MaxAgeDocs), t)
    IN
    IF cached_data # None THEN Result(TRUE, cached_data[1], "", files, 0)
    ELSE LET got == session_get(run) IN
         IF got.raised # None
         THEN Result(FALSE, << >>, "Erro busca: " \o got.raised[1], files, got.attempts)
         ELSE IF raise_for_status(got.resp) # None
         THEN Result(FALSE, << >>, "Erro busca: HTTPError", files, got.attempts)
         ELSE LET data == got.resp.content IN
              IF data = << >>
              THEN Result(FALSE, << >>, "Nenhum documento encontrado", files, got.attempts)
              ELSE Result(TRUE, data, "", cache_set(files, cache_key, data, t), got.attempts)

\* pd.DataFrame(data) of buscar_documentos: the columns are the union of the dicts' keys
columns_of(docs) == UNION {DOMAIN docs[i] : i \in DOMAIN docs}

\* a cell after astype(str): a key the dict lacks is NaN in its row, whose text is "nan"
cell_str(d, c) == IF c \in DOMAIN d THEN d[c] ELSE <<"n", "a", "n">>

\* the row test of filtrar_informe_mensal without the situacaoDocumento conjunct
is_informe_mensal_any_status(d) ==
    str_contains_nocase(cell_str(d, "tipoDocumento"), InformeMensal)

\* the row test of filtrar_informe_mensal: str.contains("Informe Mensal", case=False) &
\* (str.strip().str.upper() == "A")
is_informe_mensal_ativo(d) ==
    /\ str_contains_nocase(cell_str(d, "tipoDocumento"), InformeMensal)
    /\ str_upper(str_strip(cell_str(d, "situacaoDocumento"))) = <<"A">>

\* B3ApiClient.filtrar_informe_mensal
filtrar_informe_mensal(docs) ==
    IF docs = << >> THEN [sucesso |-> FALSE, value |-> << >>, erro |-> "DataFrame vazio"]
    ELSE IF "tipoDocumento" \notin columns_of(docs)
    THEN [sucesso |-> FALSE, value |-> << >>, erro |-> "KeyError: tipoDocumento"]
    ELSE IF "situacaoDocumento" \notin columns_of(docs)
    THEN [sucesso |-> FALSE, value |-> << >>, erro |-> "KeyError: situacaoDocumento"]
    ELSE LET df_mensal == SelectSeq(docs, is_informe_mensal_ativo)
         IN IF df_mensal = << >>
            THEN [sucesso |-> FALSE, value |-> << >>, erro |-> "Nenhum Informe Mensal encontrado"]
            ELSE [sucesso |-> TRUE, value |-> df_mensal, erro |-> ""]

\* pd.NaT
NaT == -1

is_leap(y) == (y % 4 = 0 /\ y % 100 # 0) \/ y % 400 = 0
days_in_month(y, m) ==
    IF m = 2 THEN (IF is_leap(y) THEN 29 ELSE 28)
    ELSE IF m \in {4, 6, 9, 11} THEN 30 ELSE 31

\* positions of "/" in a text
slashes(s) == {i \in DOMAIN s : s[i] = "/"}

\* pd.to_datetime(s, format="%d/%m/%Y"): one or two digits, "/", one or two digits, "/",
\* four digits, naming a calendar day; the result is ordered as yyyymmdd
strptime_dmy(s) ==
    IF Cardinality(slashes(s)) # 2 THEN NaT
    ELSE LET p1 == CHOOSE i \in slashes(s) : \A j \in slashes(s) : i <= j
             p2 == CHOOSE i \in slashes(s) : \A j \in slashes(s) : j <= i
             dd == SubSeq(s, 1, p1 - 1)
             mm == SubSeq(s, p1 + 1, p2 - 1)
             yy == SubSeq(s, p2 + 1, Len(s))
         IN IF ~(all_digits(dd) /\ all_digits(mm) /\ all_digits(yy)) THEN NaT
            ELSE IF Len(dd) > 2 \/ Len(mm) > 2 \/ Len(yy) # 4 THEN NaT
            ELSE LET d == int_of_digits(dd)
                     m == int_of_digits(mm)
                     y == int_of_digits(yy)
                 IN IF m < 1 \/ m > 12 \/ d < 1 \/ y < 1678 \/ y > 2261 THEN NaT
                    ELSE IF d > days_in_month(y, m) THEN NaT
                    ELSE y * 10000 + m * 100 + d

\* parse_data_ref: "MM/YYYY" (7 characters) is read as the first day of the month
parse_data_ref(date_str) ==
    IF Len(date_str) = 7 THEN strptime_dmy(<<"0", "1", "/">> \o date_str)
    ELSE strptime_dmy(date_str)

\* the dataRef_parsed cell of a row: parse_data_ref of astype(str) of its dataReferencia
dataRef_parsed(d) == parse_data_ref(cell_str(d, "dataReferencia"))

\* sort_values('dataRef_parsed') ascending, iloc[0]: the rows of least date
earliest_rows(df_mensal, valid) ==
    {i \in valid : \A j \in valid : dataRef_parsed(df_mensal[i]) <= dataRef_parsed(df_mensal[j])}

\* sort_values('dataRef_parsed', ascending=False), iloc[0]: the rows of greatest date (the
\* sort gives no order among equal dates)
latest_rows(df_mensal, valid) ==
    {i \in valid : \A j \in valid : dataRef_parsed(df_mensal[j]) <= dataRef_parsed(df_mensal[i])}

\* B3ApiClient.selecionar_documento_mais_recente.  value is the set of rows that
\* sort_values(ascending=False).iloc[0] can return.
selecionar_documento_mais_recente(df_mensal) ==
    IF df_mensal = << >> THEN [sucesso |-> FALSE, value |-> {}, erro |-> "DataFrame vazio"]
    ELSE IF "dataReferencia" \notin columns_of(df_mensal)
    THEN [sucesso |-> FALSE, value |-> {}, erro |-> "KeyError: dataReferencia"]
    ELSE LET valid == {i \in DOMAIN df_mensal : dataRef_parsed(df_mensal[i]) # NaT}
         IN IF valid = {}
            THEN [sucesso |-> FALSE, value |-> {}, erro |-> "Nenhuma data valida encontrada"]
            ELSE [sucesso |-> TRUE,
                  value |-> {df_mensal[i] : i \in latest_rows(df_mensal, valid)},
                  erro |-> ""]

baixar_xml_with_max_age(files, doc_id, run, t) ==
    LET cache_key == XmlPrefix \o doc_id
        cached_content == cache_get(files, cache_key, Some(MaxAgeDocs), t)
    IN
    IF cached_content # None THEN Result(TRUE, cached_content[1], "", files, 0)
    ELSE LET got == session_get(run) IN
         IF got.raised # None
         THEN Result(FALSE, << >>, "Erro download: " \o got.raised[1], files, got.attempts)
         ELSE IF raise_for_status(got.resp) # None
         THEN Result(FALSE, << >>, "Erro download: HTTPError", files, got.attempts)
         ELSE LET decoded == b64decode(got.resp.content) IN
              IF decoded = None
              THEN Result(FALSE, << >>, "Erro download: binascii.Error", files, got.attempts)
              ELSE Result(TRUE, decoded[1], "",
                          cache_set(files, cache_key, decoded[1], t), got.attempts)

\* B3ApiClient.baixar_xml
baixar_xml(files, doc_id, run, t) ==
    LET cache_key == XmlPrefix \o doc_id
        cached_content == cache_get(files, cache_key, None, t)
    IN
    IF cached_content # None THEN Result(TRUE, cached_content[1], "", files, 0)
    ELSE LET got == session_get(run) IN
         IF got.raised # None
         THEN Result(FALSE, << >>, "Erro download: " \o got.raised[1], files, got.attempts)
         ELSE IF raise_for_status(got.resp) # None
         THEN Result(FALSE, << >>, "Erro download: HTTPError", files, got.attempts)
         ELSE LET decoded == b64decode(got.resp.content) IN
              IF decoded = None
              THEN Result(FALSE, << >>, "Erro download: binascii.Error", files, got.attempts)
              ELSE Result(TRUE, decoded[1], "",
                          cache_set(files, cache_key, decoded[1], t), got.attempts)

\* ------------------------------------------------------------------------
\* xml_parser: numbers are held in hundredths (1234567.89 is 123456789)
\* ------------------------------------------------------------------------
\* a substitution that keeps the thousands separators: only replace(',', '.')
texto_limpo_keeping_dots(s) == [i \in DOMAIN s |-> IF s[i] = "," THEN "." ELSE s[i]]

\* str.replace('.', '').replace(',', '.')
RECURSIVE texto_limpo(_)
texto_limpo(s) ==
    IF Len(s) = 0 THEN << >>
    ELSE IF s[1] = "." THEN texto_limpo(Tail(s))
    ELSE <<IF s[1] = "," THEN "." ELSE s[1]>> \o texto_limpo(Tail(s))

\* the floats that are not finite: nan (also the missing value of pandas) and +-inf
NaN == -999999999
Inf == 2000000000

\* float(s) for plain decimal literals ([sign] digits [. digits]) and for the literals
\* inf, infinity and nan in any case; surrounding blanks allowed.  None stands for
\* ValueError.
float_of_parts(neg, ip, fp) ==
    IF Len(ip) + Len(fp) = 0 THEN None
    ELSE IF \E i \in DOMAIN ip : ip[i] \notin Digits THEN None
    ELSE IF \E i \in DOMAIN fp : fp[i] \notin Digits THEN None
    ELSE Some((IF neg THEN -1 ELSE 1)
              * (int_of_digits(ip) * 100 + int_of_digits(SubSeq(fp \o <<"0", "0">>, 1, 2))))

float_at_point(neg, body, p) == float_of_parts(neg, SubSeq(body, 1, p - 1), SubSeq(body, p + 1, Len(body)))

is_literal(body, literal) ==
    Len(body) = Len(literal) /\ \A i \in DOMAIN literal : char_lower(body[i]) = literal[i]

float_of_unsigned(neg, body) ==
    IF is_literal(body, <<"i", "n", "f">>)
       \/ is_literal(body, <<"i", "n", "f", "i", "n", "i", "t", "y">>)
    THEN Some(IF neg THEN -Inf ELSE Inf)
    ELSE IF is_literal(body, <<"n", "a", "n">>) THEN Some(NaN)
    ELSE IF Cardinality({i \in DOMAIN body : body[i] = "."}) > 1 THEN None
    ELSE IF \E i \in DOMAIN body : body[i] = "."
    THEN float_at_point(neg, body, CHOOSE i \in DOMAIN body : body[i] = ".")
    ELSE float_at_point(neg, body, Len(body) + 1)

float_of_stripped(s) ==
    IF Len(s) > 0 /\ s[1] \in {"-", "+"} THEN float_of_unsigned(s[1] = "-", Tail(s))
    ELSE float_of_unsigned(FALSE, s)

py_float(s0) == float_of_stripped(str_strip(s0))

\* try: return float(texto_limpo) except (ValueError, AttributeError): return 0.0
float_or_zero_on_error(v) == IF v = None THEN 0 ELSE v[1]

\* converter_valor
converter_valor(texto) ==
    IF Len(texto) = 0 \/ Len(str_strip(texto)) = 0 THEN 0
    ELSE float_or_zero_on_error(py_float(texto_limpo(texto)))

\* x in caminho (substring test)
str_in(x, caminho) == \E i \in 1..(Len(caminho) - Len(x) + 1) : SubSeq(caminho, i, i + Len(x) - 1) = x
startswith(caminho, x) == Len(caminho) >= Len(x) /\ SubSeq(caminho, 1, Len(x)) = x

\* the markers and prefixes of buscar_valor_xml
DT_ == <<"D", "T", "_">>
NR_ == <<"N", "R", "_">>
CD_ == <<"C", "D", "_">>
FDO_ == <<"F", "D", "O", "_">>
CLASS_ == <<"C", "L", "A", "S", "S", "_">>
COTST_ == <<"C", "O", "T", "S", "T", "_">>
TP_ == <<"T", "P", "_">>
VL_ == <<"V", "L", "_">>
QT_ == <<"Q", "T", "_">>
PR_ == <<"P", "R", "_">>
TX_ == <<"T", "X", "_">>

TextMarkers == {DT_, NR_, CD_, FDO_, CLASS_, COTST_, TP_}
NumericPrefixes == {VL_, QT_, PR_, TX_}

is_text_path(caminho) == \E x \in TextMarkers : str_in(x, caminho)

\* a lookup that recognises a text path by its beginning only
buscar_valor_xml_by_prefix(root, caminho) ==
    IF caminho \in DOMAIN root /\ Len(root[caminho]) > 0
    THEN IF \E x \in TextMarkers : startswith(caminho, x)
         THEN [text |-> str_strip(root[caminho])]
         ELSE [num |-> converter_valor(root[caminho])]
    ELSE IF \E x \in TextMarkers : startswith(caminho, x) THEN [text |-> << >>]
    ELSE IF str_in(<<"/">>, caminho) \/ \E x \in NumericPrefixes : startswith(caminho, x)
    THEN [num |-> 0]
    ELSE [text |-> << >>]

\* buscar_valor_xml.  root maps the path of each element present to its text; the result
\* is tagged: [text |-> ...] for a str, [num |-> ...] for a float.
buscar_valor_xml(root, caminho) ==
    IF caminho \in DOMAIN root /\ Len(root[caminho]) > 0
    THEN IF is_text_path(caminho) THEN [text |-> str_strip(root[caminho])]
         ELSE [num |-> converter_valor(root[caminho])]
    ELSE IF is_text_path(caminho) THEN [text |-> << >>]
    ELSE IF str_in(<<"/">>, caminho) \/ \E x \in NumericPrefixes : startswith(caminho, x)
    THEN [num |-> 0]
    ELSE [text |-> << >>]

\* repr(float) of a finite float that is a whole number of hundredths
RECURSIVE digits_of(_)
digits_of(n) ==
    IF n < 10 THEN <<DigitSeq[n + 1]>> ELSE digits_of(n \div 10) \o <<DigitSeq[(n % 10) + 1]>>

\* the decimals of repr(float): at least one, no trailing zero
decimals_of(c) ==
    IF c % 10 = 0 THEN <<DigitSeq[(c \div 10) + 1]>>
    ELSE <<DigitSeq[(c \div 10) + 1], DigitSeq[(c % 10) + 1]>>

\* str(float): astype(str) of a float cell
float_repr(v) ==
    IF v = NaN THEN <<"n", "a", "n">>
    ELSE IF v = Inf THEN <<"i", "n", "f">>
    ELSE IF v = -Inf THEN <<"-", "i", "n", "f">>
    ELSE IF v < 0 THEN <<"-">> \o digits_of((-v) \div 100) \o <<".">> \o decimals_of((-v) % 100)
    ELSE digits_of(v \div 100) \o <<".">> \o decimals_of(v % 100)

\* a derivation that takes the extracted float back through text and the locale conversion
float_or_0_through_text(v) ==
    IF "num" \in DOMAIN v THEN Some(converter_valor(float_repr(v.num)))
    ELSE IF v.text = << >> THEN Some(0)
    ELSE py_float(v.text)

\* float(v or 0) where v came from buscar_valor_xml; None stands for ValueError
float_or_0(v) ==
    IF "num" \in DOMAIN v THEN Some(v.num)
    ELSE IF v.text = << >> THEN Some(0)
    ELSE py_float(v.text)

\* max(a, b) of two floats: b when b > a, else a (a comparison with nan is False)
max2(a, b) == IF a # NaN /\ b # NaN /\ b > a THEN b ELSE a

\* the derived ratios are held as fractions n/d with d >= 0: 1/0 is inf and 0/0 is nan
Ratio(n, d) == [n |-> n, d |-> d]
Zero == Ratio(0, 1)
One == Ratio(1, 1)
ratio_of(v) == IF v = NaN THEN Ratio(0, 0) ELSE IF v = Inf THEN Ratio(1, 0) ELSE Ratio(v, 1)

\* a / b for a > 0 and b > 0
quotient(a, b) == Ratio(a.n * b.d, a.d * b.n)
times_100(r) == IF r.d > 0 /\ r.d % 100 = 0 THEN Ratio(r.n, r.d \div 100) ELSE Ratio(r.n * 100, r.d)
over_100(r) == IF r.n % 100 = 0 THEN Ratio(r.n \div 100, r.d) ELSE Ratio(r.n, r.d * 100)

\* min(r, 1.0): 1.0 when 1.0 < r, else r
min_1(r) == IF r.d < r.n THEN One ELSE r

\* x > 0 for a float x
greater_than_0(x) == x # NaN /\ x > 0

\* the NPL index of FIDCXMLParser.parse
npl_percent(inadimplencia_total, carteira_credito) ==
    IF greater_than_0(carteira_credito) /\ greater_than_0(inadimplencia_total)
    THEN times_100(quotient(ratio_of(inadimplencia_total), ratio_of(carteira_credito)))
    ELSE Zero
indice_npl_decimal(inadimplencia_total, carteira_credito) ==
    IF greater_than_0(carteira_credito) /\ greater_than_0(inadimplencia_total)
    THEN min_1(over_100(npl_percent(inadimplencia_total, carteira_credito)))
    ELSE Zero

\* a ratio to total assets that is clamped at 1.0 like the NPL decimal
taxa_decimal_clamped(x, ativo_total) ==
    IF greater_than_0(ativo_total)
    THEN min_1(over_100(times_100(quotient(ratio_of(x), ratio_of(ativo_total)))))
    ELSE Zero

\* the liquidity and credit-concentration ratios of FIDCXMLParser.parse:
\* (x / ativo_total) * 100 and that percentage / 100.0 when ativo_total > 0, else 0.0
taxa_percentual(x, ativo_total) ==
    IF greater_than_0(ativo_total)
    THEN times_100(quotient(ratio_of(x), ratio_of(ativo_total)))
    ELSE Zero
taxa_decimal(x, ativo_total) ==
    IF greater_than_0(ativo_total)
    THEN over_100(taxa_percentual(x, ativo_total))
    ELSE Zero

\* the attributes parse derives from ativo_total, disponibilidades and carteira_credito
indicadores_ativo(ativo_total, disponibilidades, carteira_credito) ==
    [TAXA_LIQUIDEZ_PERCENTUAL |-> taxa_percentual(disponibilidades, ativo_total),
     TAXA_LIQUIDEZ_DECIMAL |-> taxa_decimal(disponibilidades, ativo_total),
     CONCENTRACAO_CREDITO_PERCENTUAL |-> taxa_percentual(carteira_credito, ativo_total),
     CONCENTRACAO_CREDITO_DECIMAL |-> taxa_decimal(carteira_credito, ativo_total)]

\* element paths read by FIDCXMLParser.parse
P_NR_CNPJ_FUNDO ==
    <<"N", "R", "_", "C", "N", "P", "J", "_", "F", "U", "N", "D", "O">>
P_VL_SOM_APLIC_ATIVO ==
    <<"V", "L", "_", "S", "O", "M", "_", "A", "P", "L", "I", "C", "_", "A", "T", "I", "V", "O">>
P_VL_DISPONIB ==
    <<"V", "L", "_", "D", "I", "S", "P", "O", "N", "I", "B">>
P_VL_CARTEIRA ==
    <<"V", "L", "_", "C", "A", "R", "T", "E", "I", "R", "A">>
P_VL_SOM_DICRED_AQUIS ==
    <<"C", "R", "E", "D", "_", "E", "X", "I", "S", "T", "E", "/", "V", "L", "_", "S", "O", "M", "_", "D", "I", "C", "R", "E", "D", "_", "A", "Q", "U", "I", "S">>
P_VL_CRED_EXISTE_INAD ==
    <<"C", "R", "E", "D", "_", "E", "X", "I", "S", "T", "E", "/", "V", "L", "_", "C", "R", "E", "D", "_", "E", "X", "I", "S", "T", "E", "_", "I", "N", "A", "D">>
P_VL_DICRED_EXISTE_INAD ==
    <<"D", "I", "C", "R", "E", "D", "/", "V", "L", "_", "D", "I", "C", "R", "E", "D", "_", "E", "X", "I", "S", "T", "E", "_", "I", "N", "A", "D">>

\* ------------------------------------------------------------------------
\* The remote registry and the inputs the model draws from
\* ------------------------------------------------------------------------
\* filing descriptors as the discovery endpoint returns them
D_jan == [id |-> <<"7">>, tipoDocumento |-> InformeMensal,
          situacaoDocumento |-> <<"A">>, dataReferencia |-> <<"0", "1", "/", "2", "0", "2", "4">>]
D_dez == [id |-> <<"8">>, tipoDocumento |-> <<"i", "n", "f", "o", "r", "m", "e", " ", "m", "e", "n", "s", "a", "l", " ", "e", "s", "t", "r", "u", "t", "u", "r", "a", "d", "o">>,
          situacaoDocumento |-> <<" ", "a">>, dataReferencia |-> <<"1", "2", "/", "2", "0", "2", "3">>]
D_fato == [id |-> <<"9">>, tipoDocumento |-> <<"F", "a", "t", "o", " ", "R", "e", "l", "e", "v", "a", "n", "t", "e">>,
           situacaoDocumento |-> <<"A">>, dataReferencia |-> <<"0", "2", "/", "2", "0", "2", "4">>]
D_cancelado == [id |-> <<"6">>, tipoDocumento |-> InformeMensal,
                situacaoDocumento |-> <<"C">>, dataReferencia |-> <<"0", "2", "/", "2", "0", "2", "4">>]
D_sem_data == [id |-> <<"5">>, tipoDocumento |-> InformeMensal,
               situacaoDocumento |-> <<"A">>, dataReferencia |-> <<"N", "/", "A">>]
D_sem_id == [tipoDocumento |-> InformeMensal,
             situacaoDocumento |-> <<"A">>, dataReferencia |-> <<"0", "1", "/", "2", "0", "2", "4">>]

L_ok == <<D_fato, D_dez, D_jan, D_cancelado>>
L_sem_mensal == <<D_fato, D_cancelado>>
L_sem_data == <<D_sem_data>>
L_sem_id == <<D_sem_id>>
DataLists == {L_ok, L_sem_mensal, L_sem_data, L_sem_id, << >>}

\* download bodies (base64 text as sextets) and the documents they decode to
B_fundo == <<15, 3, 48, 1>>
B_zerado == <<15, 3, 48, 2>>
B_malformado == <<15, 3, 48, 3>>
B_truncado == <<15, 3, 48, 1, 7>>
Bodies == {B_fundo, B_zerado, B_malformado, B_truncado}

Tree_fundo ==
    (P_NR_CNPJ_FUNDO :> <<"1", "2", "3", "4", "5", "6", "7", "8", "0", "0", "0", "1", "9", "0">>) @@ (P_VL_SOM_APLIC_ATIVO :> <<"1", ".", "0", "0", "0", ".", "0", "0", "0", ",", "0", "0">>)
    @@ (P_VL_DISPONIB :> <<"5", "0", ".", "0", "0", "0", ",", "0", "0">>) @@ (P_VL_CARTEIRA :> <<"8", "0", "0", ".", "0", "0", "0", ",", "0", "0">>)
    @@ (P_VL_SOM_DICRED_AQUIS :> <<"8", "0", "0", ".", "0", "0", "0", ",", "0", "0">>) @@ (P_VL_CRED_EXISTE_INAD :> <<"4", "0", ".", "0", "0", "0", ",", "0", "0">>)
    @@ (P_VL_DICRED_EXISTE_INAD :> <<"1", "0", ".", "0", "0", "0", ",", "0", "0">>)
Tree_zerado == (P_VL_SOM_APLIC_ATIVO :> <<"0">>) @@ (P_VL_DISPONIB :> << >>)


\* the same filing with every element in the namespace urn:fidc: ElementTree names such an
\* element {urn:fidc}TAG, and find('.//TAG') matches an element by its full name
Namespace == <<"{", "u", "r", "n", ":", "f", "i", "d", "c", "}">>
RECURSIVE qualified_steps(_)
qualified_steps(caminho) ==
    IF Len(caminho) = 0 THEN << >>
    ELSE IF caminho[1] = "/" THEN <<"/">> \o Namespace \o qualified_steps(Tail(caminho))
    ELSE <<caminho[1]>> \o qualified_steps(Tail(caminho))
qualified(caminho) == Namespace \o qualified_steps(caminho)
with_namespace(tree) ==
    [q \in {qualified(p) : p \in DOMAIN tree} |->
        tree[CHOOSE p \in DOMAIN tree : qualified(p) = q]]
B_fundo_ns == <<15, 3, 48, 4>>

XmlFiles ==
    (b64_groups(B_fundo) :> Tree_fundo) @@ (b64_groups(B_zerado) :> Tree_zerado)
    @@ (b64_groups(B_fundo_ns) :> with_namespace(Tree_fundo))

\* the identifiers a batch is drawn from
CNPJ_A == <<"1", ".", "2">>
CNPJ_B == <<"3", "4">>
CNPJS == {CNPJ_A, CNPJ_B}
DocIds == {<<"7">>, <<"8">>}

\* the server's answers to the successive attempts of one request: up to MaxFaults
\* failed attempts, then a final answer
MaxFaults == 4
Faults == {Timeout, ConnectionRefused, Status(503)}
FinalsBusca == {Ok(l) : l \in DataLists} \cup {Status(404)}
FinalsDownload == {Ok(b) : b \in Bodies} \cup {Status(404)}
\* the same fault at every failed attempt
SteadyFaultRuns == {[i \in 1..n |-> f] : f \in Faults, n \in 0..MaxFaults}
RunsBusca == {f \o <<a>> : f \in SteadyFaultRuns, a \in FinalsBusca}
RunsDownload == {f \o <<a>> : f \in SteadyFaultRuns, a \in FinalsDownload}

\* runs for single requests: any mix of faults, more status codes
RichFaults == Faults \cup {Status(500)}
RichFaultRuns == UNION {[1..n -> RichFaults] : n \in 0..MaxFaults}
RichRunsBusca ==
    {f \o <<a>> : f \in RichFaultRuns, a \in FinalsBusca \cup {Status(400), Status(403)}}
RichRunsDownload ==
    {f \o <<a>> : f \in RichFaultRuns, a \in FinalsDownload \cup {Status(400), Status(403)}}

\* runs and identifiers for sequences of client calls: the request is answered at once,
\* or at the second attempt; filing 7 has more than one possible body
CNPJ_A2 == <<"1", "/", "2">>
ClientCNPJS == {CNPJ_A, CNPJ_A2}
ClientRunsBusca ==
    {<<a>> : a \in {Ok(L_ok), Ok(L_sem_data), Ok(<< >>), Status(404)}} \cup {<<Status(503), Ok(L_ok)>>}
ClientRunsDownload(d) ==
    IF d = <<"7">>
    THEN {<<a>> : a \in {Ok(B_fundo), Ok(B_malformado), Ok(B_truncado), Status(404)}}
             \cup {<<Timeout, Ok(B_fundo)>>}
    ELSE {<<Ok(B_zerado)>>, <<Status(404)>>}

\* keys and payloads for direct calls of the cache API; K_ab and K_a_b differ only in a
\* character that is not filesystem-safe
K_ab == <<"a", ".", "b">>
K_a_b == <<"a", "_", "b">>
K_c == <<"c">>
CacheKeys == {K_ab, K_a_b, K_c}
CacheValues == {<<1>>, <<2>>}
MaxAges == {None, Some(1)}

\* str(v) of a value returned by buscar_valor_xml, for the identification fields (all of
\* them text paths, so v is a str)
py_str(v) == v.text

\* ET.fromstring: XmlFiles gives the element texts of each well-formed document by its
\* serialized bytes; any other byte string is not well-formed (ParseError)
ET_fromstring(xml) == IF xml \in DOMAIN XmlFiles THEN Some(XmlFiles[xml]) ELSE None

NoMessage == "None"

\* FIDCData.to_dict of the snapshot parse has filled in (the columns used downstream)
to_dict(root, cnpj_fundo, inadimplencia_total, carteira_credito) ==
    [CNPJ_FUNDO |-> cnpj_fundo,
     ATIVO_TOTAL |-> buscar_valor_xml(root, P_VL_SOM_APLIC_ATIVO).num,
     DISPONIBILIDADES |-> buscar_valor_xml(root, P_VL_DISPONIB).num,
     CARTEIRA_TOTAL |-> buscar_valor_xml(root, P_VL_CARTEIRA).num,
     CREDITOS_ADQUIRIDOS |-> buscar_valor_xml(root, P_VL_SOM_DICRED_AQUIS).num,
     INADIMPLENCIA_TOTAL |-> inadimplencia_total,
     CARTEIRA_BRUTA |-> carteira_credito,
     INDICE_NPL_PERCENTUAL |-> npl_percent(inadimplencia_total, carteira_credito),
     INDICE_NPL_DECIMAL |-> indice_npl_decimal(inadimplencia_total, carteira_credito),
     STATUS |-> "SUCESSO",
     MENSAGEM_ERRO |-> NoMessage]
    @@ indicadores_ativo(float_or_0(buscar_valor_xml(root, P_VL_SOM_APLIC_ATIVO))[1],
                         float_or_0(buscar_valor_xml(root, P_VL_DISPONIB))[1],
                         carteira_credito)

\* str(buscar_valor_xml(root, 'NR_CNPJ_FUNDO')) or cnpj_fallback
cnpj_fundo_of(nr, cnpj_fallback) == IF nr # << >> THEN nr ELSE cnpj_fallback

\* the body of FIDCXMLParser.parse once the document is read: extraction, indicators
parse_root(root, cnpj_fallback) ==
    LET inadimpl_cred == float_or_0(buscar_valor_xml(root, P_VL_CRED_EXISTE_INAD))
        inadimpl_dicred == float_or_0(buscar_valor_xml(root, P_VL_DICRED_EXISTE_INAD))
        carteira_credito == float_or_0(buscar_valor_xml(root, P_VL_SOM_DICRED_AQUIS))
    IN IF inadimpl_cred = None \/ inadimpl_dicred = None \/ carteira_credito = None
       THEN [sucesso |-> FALSE, value |-> << >>, erro |-> "Erro Extracao: ValueError"]
       ELSE [sucesso |-> TRUE, erro |-> "",
             value |-> to_dict(root,
                               cnpj_fundo_of(py_str(buscar_valor_xml(root, P_NR_CNPJ_FUNDO)),
                                             cnpj_fallback),
                               max2(inadimpl_cred[1], inadimpl_dicred[1]),
                               carteira_credito[1])]

\* FIDCXMLParser.parse
parse(xml, cnpj_fallback) ==
    IF ET_fromstring(xml) = None
    THEN [sucesso |-> FALSE, value |-> << >>, erro |-> "Erro XML: ParseError"]
    ELSE parse_root(ET_fromstring(xml)[1], cnpj_fallback)

\* ------------------------------------------------------------------------
\* pandas: a table is its set of columns and its rows; a cell the dicts did not give is NaN
\* ------------------------------------------------------------------------
NaNText == "NaN"
TextColumns == {"CNPJ_FUNDO", "STATUS", "MENSAGEM_ERRO", "DATA_REFERENCIA_DOC", "ID_DOCUMENTO"}
FlagColumns == {"ATIVO_ZERO_FLAG", "CARTEIRA_BRUTA_ZERO_COM_INAD_FLAG", "SEM_POSICAO_FLAG"}
\* the columns whose floats are held as fractions
RatioColumns == {"INDICE_NPL_PERCENTUAL", "INDICE_NPL_DECIMAL",
                 "TAXA_LIQUIDEZ_PERCENTUAL", "TAXA_LIQUIDEZ_DECIMAL",
                 "CONCENTRACAO_CREDITO_PERCENTUAL", "CONCENTRACAO_CREDITO_DECIMAL"}

\* pd.DataFrame(list of dicts)
DataFrame(dicts) ==
    LET columns == UNION {DOMAIN dicts[i] : i \in DOMAIN dicts} IN
    [columns |-> columns,
     rows    |-> [i \in DOMAIN dicts |->
                     [c \in columns |-> IF c \in DOMAIN dicts[i] THEN dicts[i][c]
                                        ELSE IF c \in TextColumns THEN NaNText ELSE NaN]]]

NoTable == [columns |-> {}, rows |-> << >>]

\* a validation that flags a row only the first time it sees it
validate_ativo_zero_once(row) == row["ATIVO_TOTAL"] = 0 /\ "ATIVO_ZERO_FLAG" \notin DOMAIN row

\* a validation that flags delinquency whatever the gross portfolio is
validate_inad_any_carteira(row) ==
    row["INADIMPLENCIA_TOTAL"] # NaN /\ row["INADIMPLENCIA_TOTAL"] > 0

\* FIDCValidator.validate_* on one row (a comparison with NaN is False)
validate_ativo_zero(row) == row["ATIVO_TOTAL"] = 0
validate_carteira_bruta_zero_com_inad(row) ==
    row["CARTEIRA_BRUTA"] = 0 /\ row["INADIMPLENCIA_TOTAL"] # NaN /\ row["INADIMPLENCIA_TOTAL"] > 0
validate_sem_posicao(row) ==
    row["CARTEIRA_TOTAL"] = 0 /\ row["ATIVO_TOTAL"] # NaN /\ row["ATIVO_TOTAL"] > 0

ValidatorColumns == {"ATIVO_TOTAL", "CARTEIRA_BRUTA", "INADIMPLENCIA_TOTAL", "CARTEIRA_TOTAL"}

\* FIDCValidator.apply_all_validations; None stands for the KeyError of df['<column>']
apply_all_validations(t) ==
    IF ~(ValidatorColumns \subseteq t.columns) THEN None
    ELSE Some([columns |-> t.columns \cup FlagColumns,
               rows |-> [i \in DOMAIN t.rows |->
                   [c \in t.columns \cup FlagColumns |->
                       IF c = "ATIVO_ZERO_FLAG" THEN validate_ativo_zero(t.rows[i])
                       ELSE IF c = "CARTEIRA_BRUTA_ZERO_COM_INAD_FLAG"
                            THEN validate_carteira_bruta_zero_com_inad(t.rows[i])
                       ELSE IF c = "SEM_POSICAO_FLAG" THEN validate_sem_posicao(t.rows[i])
                       ELSE t.rows[i][c]]]])

\* ------------------------------------------------------------------------
\* data_cleaner
\* ------------------------------------------------------------------------
\* clean_cnpj: ''.join(filter(str.isdigit, cnpj_str))[:14].zfill(14)
RECURSIVE only_digits(_)
only_digits(s) ==
    IF Len(s) = 0 THEN << >>
    ELSE IF s[1] \in Digits THEN <<s[1]>> \o only_digits(Tail(s))
    ELSE only_digits(Tail(s))
zfill(s, width) == [i \in 1..(width - Len(s)) |-> "0"] \o s
clean_cnpj(cnpj_str) ==
    IF Len(only_digits(cnpj_str)) > 14 THEN SubSeq(only_digits(cnpj_str), 1, 14)
    ELSE zfill(only_digits(cnpj_str), 14)

\* Series.replace(r'^\s*-\s*$', '0', regex=True) on one cell
replace_dash(s) == IF str_strip(s) = <<"-">> THEN <<"0">> ELSE s

\* pd.to_numeric(errors='coerce') on one str cell
to_numeric(s) == IF py_float(s) = None THEN NaN ELSE py_float(s)[1]

\* a column holds str cells (dtype object) exactly when it is one of the text columns
is_numeric_dtype(c) == c \notin TextColumns

\* the historical conversion: every listed column goes through text, and every '-' of
\* that text becomes '0' (the columns of fractions are left as they are)
replace_every_dash(s) == [i \in DOMAIN s |-> IF s[i] = "-" THEN "0" ELSE s[i]]
convert_numeric_columns_via_text(table, columns) ==
    LET converted == [columns |-> table.columns,
                      rows |-> [i \in DOMAIN table.rows |-> [c \in table.columns |->
                          IF c \notin columns \/ c \in RatioColumns THEN table.rows[i][c]
                          ELSE IF is_numeric_dtype(c)
                          THEN to_numeric(replace_every_dash(float_repr(table.rows[i][c])))
                          ELSE to_numeric(replace_every_dash(table.rows[i][c]))]]]
    IN [given |-> table, returned |-> converted]

\* convert_numeric_columns (replace_dash=True): given is the caller's table after the
\* call, returned the table handed back
convert_numeric_columns(table, columns) ==
    LET df_copy == [columns |-> table.columns,
                    rows |-> [i \in DOMAIN table.rows |-> [c \in table.columns |->
                        IF c \in columns /\ ~is_numeric_dtype(c)
                        THEN to_numeric(replace_dash(table.rows[i][c]))
                        ELSE table.rows[i][c]]]]
    IN [given |-> table, returned |-> df_copy]

\* ------------------------------------------------------------------------
\* FIDCETLService
\* ------------------------------------------------------------------------
DELAY_ENTRE_REQUISICOES == 2
Day == 86400

cnpj == cnpjs[idx + 1]

ErrorRow(status, erro) == [CNPJ_FUNDO |-> cnpj, STATUS |-> status, MENSAGEM_ERRO |-> erro]

LastRowStatus == resultados[Len(resultados)].STATUS

Step(name, ok, attempts) == [step |-> name, ok |-> ok, http |-> attempts > 0]

Return_prepending(resultado) ==
    /\ resultados' = <<resultado>> \o resultados
    /\ pc' = IF idx < Len(cnpjs) - 1 THEN "sleep" ELSE "dataframe"

\* process_single_cnpj returns resultado; process_batch appends it and goes to the delay
\* unless this was the last identifier
Return(resultado) ==
    /\ resultados' = Append(resultados, resultado)
    /\ pc' = IF idx < Len(cnpjs) - 1 THEN "sleep" ELSE "dataframe"

Discover_status_by_cause(run) ==
    /\ pc = "discover"
    /\ LET r == buscar_documentos(cache, cnpj, run, now) IN
       /\ cache' = r.files
       /\ steps' = <<Step("discover", r.sucesso, r.attempts)>>
       /\ IF r.sucesso
          THEN /\ df_docs' = r.value
               /\ pc' = "filter"
               /\ UNCHANGED resultados
          ELSE /\ Return(ErrorRow(IF r.erro = "Erro busca: ConnectionError(ReadTimeout)"
                                  THEN "TIMEOUT" ELSE "ERRO_BUSCA", r.erro))
               /\ UNCHANGED df_docs
    /\ UNCHANGED <<cnpjs, idx, sleeps, now, doc, xml_content, df, last_call, written>>

\* 1. buscar_documentos
Discover(run) ==
    /\ pc = "discover"
    /\ LET r == buscar_documentos(cache, cnpj, run, now) IN
       /\ cache' = r.files
       /\ steps' = <<Step("discover", r.sucesso, r.attempts)>>
       /\ IF r.sucesso
          THEN /\ df_docs' = r.value
               /\ pc' = "filter"
               /\ UNCHANGED resultados
          ELSE /\ Return(ErrorRow("ERRO_BUSCA", r.erro))
               /\ UNCHANGED df_docs
    /\ UNCHANGED <<cnpjs, idx, sleeps, now, doc, xml_content, df, last_call, written>>

Filter_wrong_status ==
    /\ pc = "filter"
    /\ LET r == filtrar_informe_mensal(df_docs) IN
       /\ steps' = Append(steps, Step("filter", r.sucesso, 0))
       /\ IF r.sucesso
          THEN /\ df_docs' = r.value
               /\ pc' = "select"
               /\ UNCHANGED resultados
          ELSE /\ Return(ErrorRow("ERRO_SELECAO", r.erro))
               /\ df_docs' = << >>
    /\ UNCHANGED <<cnpjs, idx, sleeps, now, cache, doc, xml_content, df, last_call, written>>

\* 2. filtrar_informe_mensal
Filter ==
    /\ pc = "filter"
    /\ LET r == filtrar_informe_mensal(df_docs) IN
       /\ steps' = Append(steps, Step("filter", r.sucesso, 0))
       /\ IF r.sucesso
          THEN /\ df_docs' = r.value
               /\ pc' = "select"
               /\ UNCHANGED resultados
          ELSE /\ Return(ErrorRow("SEM_INFORME_MENSAL", r.erro))
               /\ df_docs' = << >>
    /\ UNCHANGED <<cnpjs, idx, sleeps, now, cache, doc, xml_content, df, last_call, written>>

\* 3. selecionar_documento_mais_recente
Select ==
    /\ pc = "select"
    /\ LET r == selecionar_documento_mais_recente(df_docs) IN
       /\ steps' = Append(steps, Step("select", r.sucesso, 0))
       /\ df_docs' = << >>
       /\ IF r.sucesso
          THEN /\ \E d \in r.value : doc' = Some(d)
               /\ pc' = "download"
               /\ UNCHANGED resultados
          ELSE /\ Return(ErrorRow("ERRO_SELECAO", r.erro))
               /\ UNCHANGED doc
    /\ UNCHANGED <<cnpjs, idx, sleeps, now, cache, xml_content, df, last_call, written>>

\* 4. baixar_xml(doc['id']); a descriptor without 'id' raises KeyError into the except
\*    clause of process_single_cnpj
Download(run) ==
    /\ pc = "download"
    /\ doc' = doc
    /\ IF "id" \notin DOMAIN doc[1]
       THEN /\ Return(ErrorRow("ERRO_INESPERADO", "KeyError: id"))
            /\ UNCHANGED <<cache, steps, xml_content>>
       ELSE LET r == baixar_xml(cache, doc[1].id, run, now) IN
            /\ cache' = r.files
            /\ steps' = Append(steps, Step("download", r.sucesso, r.attempts))
            /\ IF r.sucesso
               THEN /\ xml_content' = r.value
                    /\ pc' = "parse"
                    /\ UNCHANGED resultados
               ELSE /\ Return(ErrorRow("ERRO_DOWNLOAD", r.erro))
                    /\ UNCHANGED xml_content
    /\ UNCHANGED <<cnpjs, idx, sleeps, now, df_docs, df, last_call, written>>

\* 5. xml_parser.parse, then 6. the metadata of the document
Parse ==
    /\ pc = "parse"
    /\ LET r == parse(xml_content, cnpj) IN
       /\ steps' = Append(steps, Step("parse", r.sucesso, 0))
       /\ IF r.sucesso
          THEN Return(r.value @@ [DATA_REFERENCIA_DOC |-> doc[1].dataReferencia,
                                  ID_DOCUMENTO |-> doc[1].id])
          ELSE Return(ErrorRow("ERRO_PARSE", r.erro))
    /\ xml_content' = << >>
    /\ doc' = None
    /\ UNCHANGED <<cnpjs, idx, sleeps, now, cache, df_docs, df, last_call, written>>

Sleep_skipped_after_failure ==
    /\ pc = "sleep"
    /\ now' = IF LastRowStatus = "SUCESSO" THEN now + DELAY_ENTRE_REQUISICOES ELSE now
    /\ sleeps' = IF LastRowStatus = "SUCESSO" THEN sleeps + 1 ELSE sleeps
    /\ idx' = idx + 1
    /\ steps' = << >>
    /\ doc' = None
    /\ pc' = "discover"
    /\ UNCHANGED <<cnpjs, resultados, cache, df_docs, xml_content, df, last_call, written>>

\* time.sleep(settings.DELAY_ENTRE_REQUISICOES), then the next iteration of the loop
Sleep ==
    /\ pc = "sleep"
    /\ now' = now + DELAY_ENTRE_REQUISICOES
    /\ sleeps' = sleeps + 1
    /\ idx' = idx + 1
    /\ steps' = << >>
    /\ doc' = None
    /\ pc' = "discover"
    /\ UNCHANGED <<cnpjs, resultados, cache, df_docs, xml_content, df, last_call, written>>

\* process_batch after the loop: df = pd.DataFrame(resultados); df['STATUS'] raises
\* KeyError when the table has no such column
BuildDataFrame ==
    /\ pc = "dataframe"
    /\ LET t == DataFrame(resultados) IN
       IF "STATUS" \in t.columns
       THEN /\ df' = t
            /\ pc' = "validate"
       ELSE /\ df' = NoTable
            /\ pc' = "raised"
    /\ UNCHANGED <<cnpjs, idx, resultados, sleeps, now, cache, steps, df_docs, doc,
                   xml_content, last_call, written>>

\* process_and_validate after process_batch returned df
Validate ==
    /\ pc = "validate"
    /\ IF df.rows # << >> /\ "STATUS" \in df.columns
       THEN LET v == apply_all_validations(df) IN
            IF v = None
            THEN /\ df' = NoTable
                 /\ pc' = "raised"
            ELSE /\ df' = v[1]
                 /\ pc' = "returned"
       ELSE /\ df' = df
            /\ pc' = "returned"
    /\ UNCHANGED <<cnpjs, idx, resultados, sleeps, now, cache, steps, df_docs, doc,
                   xml_content, last_call, written>>

NoCall == [op |-> "none"]
NoWrites == [k \in CacheKeys |-> None]

Batches == UNION {[1..n -> CNPJS] : n \in 0..MaxBatch}

\* the cache directory outlives a run: it is empty, or holds what an earlier run stored
\* for CNPJ_A
WarmCache ==
    cache_set(cache_set(EmptyDir, DocsPrefix \o CNPJ_A, L_ok, 0),
              XmlPrefix \o <<"7">>, b64_groups(B_fundo), 0)

Init ==
    /\ cnpjs \in Batches
    /\ pc = IF cnpjs = << >> THEN "dataframe" ELSE "discover"
    /\ idx = 0
    /\ resultados = << >>
    /\ sleeps = 0
    /\ now = 0
    /\ cache \in {EmptyDir, WarmCache}
    /\ steps = << >>
    /\ df_docs = << >>
    /\ doc = None
    /\ xml_content = << >>
    /\ df = NoTable
    /\ last_call = NoCall
    /\ written = NoWrites

Next ==
    \/ \E run \in RunsBusca : Discover(run)
    \/ Filter
    \/ Select
    \/ \E run \in RunsDownload : Download(run)
    \/ Parse
    \/ Sleep
    \/ BuildDataFrame
    \/ Validate

Spec == Init /\ [][Next]_vars

\* ------------------------------------------------------------------------
\* The cache API called directly
\* ------------------------------------------------------------------------
CacheFrame == <<cnpjs, pc, idx, resultados, sleeps, steps, df_docs, doc, xml_content, df>>

CacheSet(key, value) ==
    /\ pc = "cache"
    /\ cache' = cache_set(cache, key, value, now)
    /\ written' = [written EXCEPT ![key] = Some([value |-> value, at |-> now])]
    /\ last_call' = [op |-> "set", key |-> key, max_age |-> None, result |-> None]
    /\ UNCHANGED <<CacheFrame, now>>

CacheGet(key, max_age_seconds) ==
    /\ pc = "cache"
    /\ last_call' = [op |-> "get", key |-> key, max_age |-> max_age_seconds,
                     result |-> cache_get(cache, key, max_age_seconds, now)]
    /\ cache' = cache_after_get(cache, key, max_age_seconds, now)
    /\ UNCHANGED <<CacheFrame, now, written>>

CacheDelete(key) ==
    /\ pc = "cache"
    /\ cache' = cache_delete(cache, key)
    /\ written' = [written EXCEPT ![key] = None]
    /\ last_call' = [op |-> "delete", key |-> key, max_age |-> None, result |-> None]
    /\ UNCHANGED <<CacheFrame, now>>

CacheClearAll ==
    /\ pc = "cache"
    /\ cache' = cache_clear_all(cache)
    /\ written' = NoWrites
    /\ last_call' = [op |-> "clear_all", key |-> << >>, max_age |-> None, result |-> None]
    /\ UNCHANGED <<CacheFrame, now>>

\* a second passes
CacheTick ==
    /\ pc = "cache"
    /\ now < MaxCacheNow
    /\ now' = now + 1
    /\ UNCHANGED <<CacheFrame, cache, written, last_call>>

InitCache ==
    /\ cnpjs = << >>
    /\ pc = "cache"
    /\ idx = 0
    /\ resultados = << >>
    /\ sleeps = 0
    /\ now = 0
    /\ cache = EmptyDir
    /\ steps = << >>
    /\ df_docs = << >>
    /\ doc = None
    /\ xml_content = << >>
    /\ df = NoTable
    /\ last_call = NoCall
    /\ written = NoWrites

NextCache ==
    \/ \E key \in CacheKeys, value \in CacheValues : CacheSet(key, value)
    \/ \E key \in CacheKeys, max_age_seconds \in MaxAges : CacheGet(key, max_age_seconds)
    \/ \E key \in CacheKeys : CacheDelete(key)
    \/ CacheClearAll
    \/ CacheTick

SpecCache == InitCache /\ [][NextCache]_vars

\* ------------------------------------------------------------------------
\* One request of the client against an empty cache
\* ------------------------------------------------------------------------
ClientFrame == <<cnpjs, idx, resultados, sleeps, steps, df_docs, doc, xml_content, df, written>>

\* the entry a key maps to, None when there is no file
entry_of(files, key) ==
    IF get_file_path(key) \in DOMAIN files THEN Some(files[get_file_path(key)]) ELSE None

Called(op, arg, key, r, run) ==
    [op |-> op, arg |-> arg, at |-> now, before |-> entry_of(cache, key),
     attempts |-> r.attempts, run |-> run,
     sucesso |-> r.sucesso, value |-> r.value, erro |-> r.erro]

HttpBuscar(run) ==
    /\ pc = "http"
    /\ LET r == buscar_documentos(cache, CNPJ_A, run, now) IN
       /\ cache' = r.files
       /\ last_call' = Called("buscar_documentos", CNPJ_A, DocsPrefix \o CNPJ_A, r, run)
    /\ pc' = "http_done"
    /\ UNCHANGED <<ClientFrame, now>>

HttpBaixar(run) ==
    /\ pc = "http"
    /\ LET r == baixar_xml(cache, <<"7">>, run, now) IN
       /\ cache' = r.files
       /\ last_call' = Called("baixar_xml", <<"7">>, XmlPrefix \o <<"7">>, r, run)
    /\ pc' = "http_done"
    /\ UNCHANGED <<ClientFrame, now>>

InitHttp ==
    /\ cnpjs = << >>
    /\ pc = "http"
    /\ idx = 0
    /\ resultados = << >>
    /\ sleeps = 0
    /\ now = 0
    /\ cache = EmptyDir
    /\ steps = << >>
    /\ df_docs = << >>
    /\ doc = None
    /\ xml_content = << >>
    /\ df = NoTable
    /\ last_call = NoCall
    /\ written = NoWrites

NextHttp ==
    \/ \E run \in RichRunsBusca : HttpBuscar(run)
    \/ \E run \in RichRunsDownload : HttpBaixar(run)

SpecHttp == InitHttp /\ [][NextHttp]_vars

\* ------------------------------------------------------------------------
\* Sequences of client calls over time
\* ------------------------------------------------------------------------
ClientBuscar(c, run) ==
    /\ pc = "client"
    /\ LET r == buscar_documentos(cache, c, run, now) IN
       /\ cache' = r.files
       /\ last_call' = Called("buscar_documentos", c, DocsPrefix \o c, r, << >>)
    /\ UNCHANGED <<ClientFrame, pc, now>>

ClientBaixar(d, run) ==
    /\ pc = "client"
    /\ LET r == baixar_xml(cache, d, run, now) IN
       /\ cache' = r.files
       /\ last_call' = Called("baixar_xml", d, XmlPrefix \o d, r, << >>)
    /\ UNCHANGED <<ClientFrame, pc, now>>

\* a second or a day passes
ClientTick(d) ==
    /\ pc = "client"
    /\ IF d = Day THEN now + Day <= MaxDays * Day + MaxSeconds ELSE now % Day < MaxSeconds
    /\ now' = now + d
    /\ last_call' = NoCall
    /\ UNCHANGED <<ClientFrame, pc, cache>>

InitClient ==
    /\ cnpjs = << >>
    /\ pc = "client"
    /\ idx = 0
    /\ resultados = << >>
    /\ sleeps = 0
    /\ now = 0
    /\ cache = EmptyDir
    /\ steps = << >>
    /\ df_docs = << >>
    /\ doc = None
    /\ xml_content = << >>
    /\ df = NoTable
    /\ last_call = NoCall
    /\ written = NoWrites

NextClient ==
    \/ \E c \in ClientCNPJS, run \in ClientRunsBusca : ClientBuscar(c, run)
    \/ \E d \in DocIds : \E run \in ClientRunsDownload(d) : ClientBaixar(d, run)
    \/ \E d \in {1, Day} : ClientTick(d)

SpecClient == InitClient /\ [][NextClient]_vars

\* ------------------------------------------------------------------------
\* Client calls over a cache directory with damaged files
\* ------------------------------------------------------------------------
EntryStates == {None, Some([data |-> Garbage, mtime |-> 0]), Some([data |-> Denied, mtime |-> 0])}

\* the directory holding entry e (or no file, for None) under key
dir_with(files, key, e) ==
    IF e = None THEN files
    ELSE [f \in DOMAIN files \cup {get_file_path(key)} |->
             IF f = get_file_path(key) THEN e[1] ELSE files[f]]

DamagedDirs ==
    {dir_with(dir_with(EmptyDir, DocsPrefix \o CNPJ_A, d), XmlPrefix \o <<"7">>, x) :
        d \in EntryStates \cup {Some([data |-> pickle_dump(L_ok), mtime |-> 0])},
        x \in EntryStates \cup {Some([data |-> pickle_dump(b64_groups(B_zerado)), mtime |-> 0])}}

FailOpenBuscar(run) ==
    /\ pc = "failopen"
    /\ LET r == buscar_documentos(cache, CNPJ_A, run, now) IN
       /\ cache' = r.files
       /\ last_call' = Called("buscar_documentos", CNPJ_A, DocsPrefix \o CNPJ_A, r, run)
    /\ UNCHANGED <<ClientFrame, pc, now>>

FailOpenBaixar(run) ==
    /\ pc = "failopen"
    /\ LET r == baixar_xml(cache, <<"7">>, run, now) IN
       /\ cache' = r.files
       /\ last_call' = Called("baixar_xml", <<"7">>, XmlPrefix \o <<"7">>, r, run)
    /\ UNCHANGED <<ClientFrame, pc, now>>

InitFailOpen ==
    /\ cnpjs = << >>
    /\ pc = "failopen"
    /\ idx = 0
    /\ resultados = << >>
    /\ sleeps = 0
    /\ now = 0
    /\ cache \in DamagedDirs
    /\ steps = << >>
    /\ df_docs = << >>
    /\ doc = None
    /\ xml_content = << >>
    /\ df = NoTable
    /\ last_call = NoCall
    /\ written = NoWrites

NextFailOpen ==
    \/ \E run \in ClientRunsBusca : FailOpenBuscar(run)
    \/ \E run \in ClientRunsDownload(<<"7">>) : FailOpenBaixar(run)

SpecFailOpen == InitFailOpen /\ [][NextFailOpen]_vars

\* ------------------------------------------------------------------------
\* The parser's functions, each called on its own
\* ------------------------------------------------------------------------
\* numbers written in the Brazilian format: the integer digits in groups of three
\* separated by '.', then ',' and two decimals
MaxIntDigits == 7
BRDigits == {"0", "1"}
RECURSIVE group_thousands(_)
group_thousands(ds) ==
    IF Len(ds) <= 3 THEN ds
    ELSE group_thousands(SubSeq(ds, 1, Len(ds) - 3)) \o <<".">> \o SubSeq(ds, Len(ds) - 2, Len(ds))
BrazilianNumbers ==
    {[digits |-> ds, decimals |-> dd] :
        ds \in UNION {[1..n -> BRDigits] : n \in 1..MaxIntDigits}, dd \in [1..2 -> BRDigits]}
    \cup {[digits |-> <<"1", "2", "3", "4", "5", "6", "7">>, decimals |-> <<"8", "9">>]}
brazilian_text(n) == group_thousands(n.digits) \o <<",">> \o n.decimals
denoted(n) == int_of_digits(n.digits) * 100 + int_of_digits(n.decimals)

\* texts that are blank, and texts that float() rejects after the substitution
BlankTexts == {<< >>, <<" ">>, <<" ", " ">>}
UnparseableTexts == {<<"a", "b", "c">>, <<"1", ",", "2", ",", "3">>, <<"-">>, <<"-", "-", "1">>,
                     <<"1", " ", "2">>, <<",">>, <<"R", "$", "1", ",", "0", "0">>}
OtherTexts == {<<"1", ".", "5">>, <<" ", "1", ",", "5", "0", " ">>, <<"-", "2", ",", "5", "0">>,
               <<"i", "n", "f">>, <<"n", "a", "n">>, <<"1", ",", "5">>, <<"7">>}
ConverterTexts ==
    {brazilian_text(n) : n \in BrazilianNumbers} \cup BlankTexts \cup UnparseableTexts
    \cup OtherTexts

\* paths looked up one at a time: a text prefix, a numeric prefix, a compound path, a
\* compound path whose last step has a text marker, a numeric prefix followed by a text
\* marker, and a path with no marker at all
P_NR_CNPJ_ADM == <<"A", "D", "M", "/", "N", "R", "_", "C", "N", "P", "J", "_", "A", "D", "M">>
P_VL_CD_ATIVO == <<"V", "L", "_", "C", "D", "_", "A", "T", "I", "V", "O">>
P_SALDO == <<"S", "A", "L", "D", "O">>
SearchPaths == {P_NR_CNPJ_FUNDO, P_VL_DISPONIB, P_VL_SOM_DICRED_AQUIS, P_NR_CNPJ_ADM,
                P_VL_CD_ATIVO, P_SALDO}
FieldTexts == {<< >>, <<"0", ",", "0", "0">>, <<"1", ",", "0", "0">>, <<"2", ",", "0", "0">>,
               <<"-", "1", ",", "0", "0">>, <<"i", "n", "f">>, <<"x">>}
SearchTexts == FieldTexts \cup {<<" ">>, <<" ", "1", "2", " ">>}
SearchTrees == {<< >>} \cup {p :> t : p \in SearchPaths, t \in SearchTexts}

\* filings that differ in the three elements the NPL index is derived from
NplPaths == {P_VL_SOM_DICRED_AQUIS, P_VL_CRED_EXISTE_INAD, P_VL_DICRED_EXISTE_INAD}
NplTrees == UNION {[ps -> FieldTexts] : ps \in SUBSET NplPaths}
ParserTrees == NplTrees \cup {Tree_fundo, Tree_zerado}
ParserDocuments == {b64_groups(b) : b \in {B_fundo, B_zerado, B_malformado, B_fundo_ns}}

CallConverterValor(texto) ==
    /\ pc = "parser"
    /\ last_call' = [op |-> "converter_valor", texto |-> texto, value |-> converter_valor(texto)]
    /\ pc' = "parser_done"
    /\ UNCHANGED <<ClientFrame, now, cache>>

CallBuscarValorXml(root, caminho) ==
    /\ pc = "parser"
    /\ last_call' = [op |-> "buscar_valor_xml", root |-> root, caminho |-> caminho,
                     value |-> buscar_valor_xml(root, caminho)]
    /\ pc' = "parser_done"
    /\ UNCHANGED <<ClientFrame, now, cache>>

\* parse on the bytes of a document
CallParse(xml, cnpj_fallback) ==
    /\ pc = "parser"
    /\ last_call' = [op |-> "parse", xml |-> xml, cnpj_fallback |-> cnpj_fallback,
                     r |-> parse(xml, cnpj_fallback)]
    /\ pc' = "parser_done"
    /\ UNCHANGED <<ClientFrame, now, cache>>

\* parse from the point where the document has been read
CallParseRoot(root, cnpj_fallback) ==
    /\ pc = "parser"
    /\ last_call' = [op |-> "parse_root", root |-> root, cnpj_fallback |-> cnpj_fallback,
                     r |-> parse_root(root, cnpj_fallback)]
    /\ pc' = "parser_done"
    /\ UNCHANGED <<ClientFrame, now, cache>>

\* the stages after extraction, on one snapshot: pd.DataFrame([raw_data]),
\* convert_numeric_columns(df, cols_numericas), apply_all_validations
cols_numericas == {"INDICE_NPL_DECIMAL", "CARTEIRA_BRUTA", "INADIMPLENCIA_TOTAL"}
pipeline(root, cnpj_fallback) ==
    IF ~parse_root(root, cnpj_fallback).sucesso THEN None
    ELSE apply_all_validations(
             convert_numeric_columns(DataFrame(<<parse_root(root, cnpj_fallback).value>>),
                                     cols_numericas).returned)

CallPipeline(root, cnpj_fallback) ==
    /\ pc = "parser"
    /\ pc' = "parser_done"
    /\ last_call' = [op |-> "pipeline", root |-> root, cnpj_fallback |-> cnpj_fallback,
                     table |-> pipeline(root, cnpj_fallback)]
    /\ UNCHANGED <<ClientFrame, now, cache>>

InitParser ==
    /\ cnpjs = << >>
    /\ pc = "parser"
    /\ idx = 0
    /\ resultados = << >>
    /\ sleeps = 0
    /\ now = 0
    /\ cache = EmptyDir
    /\ steps = << >>
    /\ df_docs = << >>
    /\ doc = None
    /\ xml_content = << >>
    /\ df = NoTable
    /\ last_call = NoCall
    /\ written = NoWrites

NextParser ==
    \/ \E texto \in ConverterTexts : CallConverterValor(texto)
    \/ \E root \in SearchTrees, caminho \in SearchPaths : CallBuscarValorXml(root, caminho)
    \/ \E xml \in ParserDocuments : CallParse(xml, CNPJ_B)
    \/ \E root \in ParserTrees : CallParseRoot(root, CNPJ_B)
    \/ \E root \in ParserTrees : CallPipeline(root, CNPJ_B)

SpecParser == InitParser /\ [][NextParser]_vars

\* ------------------------------------------------------------------------
\* convert_numeric_columns called on its own
\* ------------------------------------------------------------------------
MaxRows == 1
Tiny == Ratio(1, 2000000000)
CleanerRows ==
    {[CNPJ_FUNDO |-> CNPJ_B, ID_DOCUMENTO |-> id, DISPONIBILIDADES |-> v,
      INDICE_NPL_DECIMAL |-> r] :
        id \in {<<"7">>, <<"-">>, <<" ", "-", " ">>, <<"a", "b", "c">>, <<"-", "5">>},
        v \in {0, 5000000, -100, NaN},
        r \in {Tiny, Zero}}
CleanerTables == {DataFrame(rows) : rows \in UNION {[1..n -> CleanerRows] : n \in 0..MaxRows}}
CleanerColumns == SUBSET {"ID_DOCUMENTO", "DISPONIBILIDADES", "INDICE_NPL_DECIMAL", "TAXA"}

ConvertNumericColumns(columns) ==
    /\ pc = "cleaner"
    /\ pc' = "cleaner_done"
    /\ df' = convert_numeric_columns(df, columns).given
    /\ last_call' = [op |-> "convert_numeric_columns", before |-> df, columns |-> columns,
                     returned |-> convert_numeric_columns(df, columns).returned]
    /\ UNCHANGED <<cnpjs, idx, resultados, sleeps, steps, df_docs, doc, xml_content, written,
                   now, cache>>

InitCleaner ==
    /\ cnpjs = << >>
    /\ pc = "cleaner"
    /\ idx = 0
    /\ resultados = << >>
    /\ sleeps = 0
    /\ now = 0
    /\ cache = EmptyDir
    /\ steps = << >>
    /\ df_docs = << >>
    /\ doc = None
    /\ xml_content = << >>
    /\ df \in CleanerTables
    /\ last_call = NoCall
    /\ written = NoWrites

NextCleaner == \E columns \in CleanerColumns : ConvertNumericColumns(columns)

SpecCleaner == InitCleaner /\ [][NextCleaner]_vars

\* ------------------------------------------------------------------------
\* apply_all_validations called on its own, and again on what it returned
\* ------------------------------------------------------------------------
ValidatorRows ==
    {[CNPJ_FUNDO |-> CNPJ_B, ATIVO_TOTAL |-> a, CARTEIRA_BRUTA |-> cb,
      INADIMPLENCIA_TOTAL |-> inad, CARTEIRA_TOTAL |-> ct] :
        a \in {0, 100, -100, NaN}, cb \in {0, 100, NaN}, inad \in {0, 100, NaN},
        ct \in {0, 100, NaN}}
\* a table without one of the columns the validations read
RowsSemCarteira == {[CNPJ_FUNDO |-> CNPJ_B, ATIVO_TOTAL |-> a] : a \in {0, 100}}
ValidatorTables ==
    {DataFrame(rows) : rows \in UNION {[1..n -> ValidatorRows] : n \in 0..MaxRows}}
    \cup {DataFrame(<<row>>) : row \in RowsSemCarteira}

\* None (KeyError) stays None when validation is applied again
validate_again(v) == IF v = None THEN None ELSE apply_all_validations(v[1])

\* df_validado = apply_all_validations(df); apply_all_validations(df_validado).  The
\* validations work on df.copy(), so df is the same table afterwards
ApplyAllValidations ==
    /\ pc = "validator"
    /\ pc' = "validator_done"
    /\ df' = df
    /\ last_call' = [op |-> "apply_all_validations", before |-> df,
                     once |-> apply_all_validations(df),
                     twice |-> validate_again(apply_all_validations(df))]
    /\ UNCHANGED <<cnpjs, idx, resultados, sleeps, steps, df_docs, doc, xml_content, written,
                   now, cache>>

InitValidator ==
    /\ cnpjs = << >>
    /\ pc = "validator"
    /\ idx = 0
    /\ resultados = << >>
    /\ sleeps = 0
    /\ now = 0
    /\ cache = EmptyDir
    /\ steps = << >>
    /\ df_docs = << >>
    /\ doc = None
    /\ xml_content = << >>
    /\ df \in ValidatorTables
    /\ last_call = NoCall
    /\ written = NoWrites

NextValidator == ApplyAllValidations

SpecValidator == InitValidator /\ [][NextValidator]_vars

\* ------------------------------------------------------------------------
\* DiffGenerator.generate_diff_report.  In the tables compared a cell is tagged:
\* [num |-> ...] for a float (NaN when missing), [text |-> ...] for a str
\* ------------------------------------------------------------------------
Num(x) == [num |-> x]
Text(s) == [text |-> s]

\* a difference computed the wrong way round
diferenca_v1_minus_v2(val_v1, val_v2) ==
    IF val_v1 = NaN /\ val_v2 = NaN THEN None
    ELSE IF val_v1 = NaN THEN Some(-val_v2)
    ELSE IF val_v2 = NaN THEN Some(val_v1)
    ELSE Some(val_v1 - val_v2)

\* the difference of one pair of values; None when both are missing
diferenca(val_v1, val_v2) ==
    IF val_v1 = NaN /\ val_v2 = NaN THEN None
    ELSE IF val_v1 = NaN THEN Some(val_v2)
    ELSE IF val_v2 = NaN THEN Some(-val_v1)
    ELSE Some(val_v2 - val_v1)

\* set(df.set_index('CNPJ_FUNDO').index)
index_of(t) ==
    IF "CNPJ_FUNDO" \in t.columns THEN {t.rows[i]["CNPJ_FUNDO"] : i \in DOMAIN t.rows}
    ELSE DOMAIN t.rows

\* select_dtypes(include=np.number).columns: the columns all of whose cells are floats
numeric_cols(t) ==
    {c \in t.columns \ {"CNPJ_FUNDO"} : \A i \in DOMAIN t.rows : "num" \in DOMAIN t.rows[i][c]}

\* df.loc[cnpj, col] in a table where cnpj occurs once
loc(t, cnpj_, col) ==
    t.rows[CHOOSE i \in DOMAIN t.rows : t.rows[i]["CNPJ_FUNDO"] = cnpj_][col].num

\* df.loc[cnpj, col] is a Series, not a scalar, when the index holds cnpj more than once
loc_is_series(t, cnpj_, col) ==
    /\ "CNPJ_FUNDO" \in t.columns
    /\ Cardinality({i \in DOMAIN t.rows : t.rows[i]["CNPJ_FUNDO"] = cnpj_}) > 1

\* generate_diff_report raises ValueError (the truth value of a Series is ambiguous) at
\* 'if pd.isna(val_v1) and pd.isna(val_v2)' or at one of its elifs as soon as the loop
\* meets a pair for which val_v1 or val_v2 is a Series; nothing in the function catches it
generate_diff_report_raises(df_v1, df_v2) ==
    \E cnpj_ \in index_of(df_v1) \cap index_of(df_v2) :
        \E col \in numeric_cols(df_v1) \cap numeric_cols(df_v2) :
            loc_is_series(df_v1, cnpj_, col) \/ loc_is_series(df_v2, cnpj_, col)

\* generate_diff_report without output_file: the set of the records of the report
generate_diff_report(df_v1, df_v2) ==
    IF index_of(df_v1) \cap index_of(df_v2) = {} THEN {}
    ELSE IF numeric_cols(df_v1) \cap numeric_cols(df_v2) = {} THEN {}
    ELSE {[CNPJ_FUNDO |-> rec[1], COLUNA |-> rec[2],
           DIFERENCA |-> diferenca(loc(df_v1, rec[1], rec[2]), loc(df_v2, rec[1], rec[2]))[1]] :
            rec \in {pair \in (index_of(df_v1) \cap index_of(df_v2))
                                 \X (numeric_cols(df_v1) \cap numeric_cols(df_v2)) :
                        /\ diferenca(loc(df_v1, pair[1], pair[2]),
                                     loc(df_v2, pair[1], pair[2])) # None
                        /\ diferenca(loc(df_v1, pair[1], pair[2]),
                                     loc(df_v2, pair[1], pair[2]))[1] # 0}}

\* tables in which CNPJ_A is on two rows, as process_batch builds for a list that repeats
\* an identifier, and the one-row tables they are compared with
RepeatedTables ==
    {[columns |-> {"CNPJ_FUNDO", "ATIVO_TOTAL"},
      rows |-> <<[CNPJ_FUNDO |-> CNPJ_A, ATIVO_TOTAL |-> a1],
                 [CNPJ_FUNDO |-> CNPJ_A, ATIVO_TOTAL |-> a2]>>] :
        a1 \in {Num(1000), Num(NaN)}, a2 \in {Num(1000), Num(1200), Text(<<"x">>)}}
OneRowTables ==
    {[columns |-> {"CNPJ_FUNDO", "ATIVO_TOTAL"},
      rows |-> <<[CNPJ_FUNDO |-> id, ATIVO_TOTAL |-> a]>>] :
        id \in {CNPJ_A, CNPJ_B}, a \in {Num(1000), Num(NaN), Text(<<"x">>)}}

\* the tables compared: each identifier at most once, ATIVO_TOTAL always a float column,
\* TAXA absent, a float column, or a column with a str in it
DiffRows(cols) ==
    {IF "TAXA" \in cols THEN [CNPJ_FUNDO |-> id, ATIVO_TOTAL |-> a, TAXA |-> x]
     ELSE [CNPJ_FUNDO |-> id, ATIVO_TOTAL |-> a] :
        id \in {CNPJ_A, CNPJ_B}, a \in {Num(0), Num(1000), Num(1200), Num(NaN)},
        x \in {Num(1000), Num(NaN), Text(<<"x">>)}}
DiffTables ==
    {[columns |-> {}, rows |-> << >>]}
    \cup UNION {{[columns |-> cols, rows |-> rows] :
                    rows \in {rs \in UNION {[1..n -> DiffRows(cols)] : n \in 1..MaxRows} :
                                 \A i, j \in DOMAIN rs :
                                     i < j => rs[i]["CNPJ_FUNDO"] # rs[j]["CNPJ_FUNDO"]}} :
                cols \in {{"CNPJ_FUNDO", "ATIVO_TOTAL"}, {"CNPJ_FUNDO", "ATIVO_TOTAL", "TAXA"}}}

GenerateDiffReport(df_v1, df_v2) ==
    /\ pc = "diff"
    /\ pc' = "diff_done"
    /\ last_call' = [op |-> "generate_diff_report", df_v1 |-> df_v1, df_v2 |-> df_v2,
                     raised |-> IF generate_diff_report_raises(df_v1, df_v2)
                                THEN Some("ValueError") ELSE None,
                     report |-> IF generate_diff_report_raises(df_v1, df_v2) THEN {}
                                ELSE generate_diff_report(df_v1, df_v2)]
    /\ UNCHANGED <<ClientFrame, now, cache>>

InitDiff ==
    /\ cnpjs = << >>
    /\ pc = "diff"
    /\ idx = 0
    /\ resultados = << >>
    /\ sleeps = 0
    /\ now = 0
    /\ cache = EmptyDir
    /\ steps = << >>
    /\ df_docs = << >>
    /\ doc = None
    /\ xml_content = << >>
    /\ df = NoTable
    /\ last_call = NoCall
    /\ written = NoWrites

NextDiff ==
    /\ pc = "diff"
    /\ \/ \E df_v1 \in DiffTables, df_v2 \in DiffTables : GenerateDiffReport(df_v1, df_v2)
       \/ \E df_v1 \in RepeatedTables, df_v2 \in RepeatedTables \cup OneRowTables :
              GenerateDiffReport(df_v1, df_v2)
       \/ \E df_v1 \in OneRowTables, df_v2 \in RepeatedTables : GenerateDiffReport(df_v1, df_v2)

SpecDiff == InitDiff /\ [][NextDiff]_vars

\* ------------------------------------------------------------------------
\* filtrar_informe_mensal and selecionar_documento_mais_recente called on
\* descriptor lists, alone and one after the other as process_single_cnpj does
\* ------------------------------------------------------------------------
MaxDocs == 3           \* longest descriptor list handed to filter and select

T_fato == <<"F", "a", "t", "o">>
T_minusculas == <<"x", " ", "i", "n", "f", "o", "r", "m", "e", " ", "m", "e", "n", "s", "a", "l", " ", "y">>
R_jan == <<"0", "1", "/", "2", "0", "2", "4">>
R_dez == <<"1", "2", "/", "2", "0", "2", "3">>
R_15_jan == <<"1", "5", "/", "0", "1", "/", "2", "0", "2", "4">>
R_mes_13 == <<"1", "3", "/", "2", "0", "2", "4">>
R_na == <<"N", "/", "A">>

\* a descriptor dict with the given keys; an Optional that is None leaves the key out
descriptor(id, tipo, situacao, data) ==
    [k \in {"id"} \cup (IF tipo = None THEN {} ELSE {"tipoDocumento"})
              \cup (IF situacao = None THEN {} ELSE {"situacaoDocumento"})
              \cup (IF data = None THEN {} ELSE {"dataReferencia"}) |->
        CASE k = "id" -> id
          [] k = "tipoDocumento" -> tipo[1]
          [] k = "situacaoDocumento" -> situacao[1]
          [] OTHER -> data[1]]

FilterDescriptors ==
    {descriptor(<<"7">>, tipo, situacao, Some(R_jan)) :
        tipo \in {Some(InformeMensal), Some(T_minusculas), Some(T_fato), None},
        situacao \in {Some(<<"A">>), Some(<<" ", "a">>), Some(<<"C">>)}}
    \cup {descriptor(<<"7">>, Some(InformeMensal), None, Some(R_jan))}
SelectDescriptors ==
    {descriptor(<<"7">>, Some(InformeMensal), Some(<<"A">>), data) :
        data \in {Some(R_jan), Some(R_dez), Some(R_15_jan), Some(R_mes_13), Some(R_na), None}}
    \cup {descriptor(<<"8">>, Some(InformeMensal), Some(<<"A">>), Some(R_jan))}
\* descriptors of both kinds, for the two calls in a row
MixedDescriptors ==
    {descriptor(<<"7">>, tipo, situacao, data) :
        tipo \in {Some(InformeMensal), Some(T_fato)},
        situacao \in {Some(<<"A">>), Some(<<"C">>)},
        data \in {Some(R_jan), Some(R_na)}}

ListsOf(descriptors) == UNION {[1..n -> descriptors] : n \in 0..MaxDocs}

CallFiltrar(docs) ==
    /\ last_call' = [op |-> "filtrar_informe_mensal", arg |-> docs,
                     r |-> filtrar_informe_mensal(docs)]
    /\ pc' = "docs_done"
    /\ UNCHANGED <<cnpjs, idx, resultados, sleeps, steps, df_docs, doc, xml_content, df,
                   written, now, cache>>

\* iloc[0] after the sort: one of the rows of greatest date
CallSelecionar(df_mensal) ==
    /\ LET r == selecionar_documento_mais_recente(df_mensal) IN
       \E d \in (IF r.sucesso THEN r.value ELSE {None}) :
           last_call' = [op |-> "selecionar_documento_mais_recente", arg |-> df_mensal,
                         sucesso |-> r.sucesso, erro |-> r.erro,
                         doc |-> IF r.sucesso THEN Some(d) ELSE None]
    /\ pc' = "docs_done"
    /\ UNCHANGED <<cnpjs, idx, resultados, sleeps, steps, df_docs, doc, xml_content, df,
                   written, now, cache>>

\* process_single_cnpj, steps 2 and 3: the table filter returns is the one select gets
filtrar_e_selecionar(docs) ==
    IF filtrar_informe_mensal(docs).sucesso
    THEN [STATUS |-> IF selecionar_documento_mais_recente(filtrar_informe_mensal(docs).value).sucesso
                     THEN "" ELSE "ERRO_SELECAO",
          df_mensal |-> filtrar_informe_mensal(docs).value,
          docs |-> selecionar_documento_mais_recente(filtrar_informe_mensal(docs).value).value]
    ELSE [STATUS |-> "SEM_INFORME_MENSAL", df_mensal |-> << >>, docs |-> {}]

CallFiltrarSelecionar(docs) ==
    /\ LET r == filtrar_e_selecionar(docs) IN
       \E d \in (IF r.docs = {} THEN {None} ELSE r.docs) :
           last_call' = [op |-> "filtrar_e_selecionar", arg |-> docs, STATUS |-> r.STATUS,
                         df_mensal |-> r.df_mensal,
                         doc |-> IF r.docs = {} THEN None ELSE Some(d)]
    /\ pc' = "docs_done"
    /\ UNCHANGED <<cnpjs, idx, resultados, sleeps, steps, df_docs, doc, xml_content, df,
                   written, now, cache>>

InitDocs ==
    /\ cnpjs = << >>
    /\ pc = "docs"
    /\ idx = 0
    /\ resultados = << >>
    /\ sleeps = 0
    /\ now = 0
    /\ cache = EmptyDir
    /\ steps = << >>
    /\ df_docs = << >>
    /\ doc = None
    /\ xml_content = << >>
    /\ df = NoTable
    /\ last_call = NoCall
    /\ written = NoWrites

NextDocs ==
    /\ pc = "docs"
    /\ \/ \E docs \in ListsOf(FilterDescriptors) : CallFiltrar(docs)
       \/ \E df_mensal \in ListsOf(SelectDescriptors) : CallSelecionar(df_mensal)
       \/ \E docs \in ListsOf(MixedDescriptors) : CallFiltrarSelecionar(docs)

SpecDocs == InitDocs /\ [][NextDocs]_vars

\* ------------------------------------------------------------------------
\* The indicators of one filing: parse, the validated one-row table, and
\* IndicatorCalculator.calculate_npl over that row
\* ------------------------------------------------------------------------
\* a / b where a and b are float64 cells and b # 0: numpy raises nothing, nan and inf
\* propagate
series_div(a, b) ==
    IF a = NaN \/ b = NaN THEN Ratio(0, 0)
    ELSE IF b = Inf THEN (IF a = Inf THEN Ratio(0, 0) ELSE Zero)
    ELSE IF a = Inf THEN (IF b > 0 THEN Ratio(1, 0) ELSE Ratio(-1, 0))
    ELSE IF b > 0 THEN Ratio(a, b) ELSE Ratio(-a, -b)

\* IndicatorCalculator.calculate_npl on one row:
\* np.where(CARTEIRA_BRUTA == 0, 0, INADIMPLENCIA_TOTAL / CARTEIRA_BRUTA)
calculate_npl(row) ==
    IF row["CARTEIRA_BRUTA"] = 0 THEN Zero
    ELSE series_div(row["INADIMPLENCIA_TOTAL"], row["CARTEIRA_BRUTA"])

X_0 == <<"0", ",", "0", "0">>
X_menos_1 == <<"-", "1", ",", "0", "0">>
X_30 == <<"3", "0", ",", "0", "0">>
X_40 == <<"4", "0", ",", "0", "0">>
X_50 == <<"5", "0", ",", "0", "0">>
X_80 == <<"8", "0", ",", "0", "0">>
X_100 == <<"1", "0", "0", ",", "0", "0">>
X_200 == <<"2", "0", "0", ",", "0", "0">>
X_inf == <<"i", "n", "f">>
X_nan == <<"n", "a", "n">>

\* a filing with the six elements the indicators and the validations read
filing(ativo, disponib, carteira, aquis, cred_inad, dicred_inad) ==
    (P_VL_SOM_APLIC_ATIVO :> ativo) @@ (P_VL_DISPONIB :> disponib)
    @@ (P_VL_CARTEIRA :> carteira) @@ (P_VL_SOM_DICRED_AQUIS :> aquis)
    @@ (P_VL_CRED_EXISTE_INAD :> cred_inad) @@ (P_VL_DICRED_EXISTE_INAD :> dicred_inad)

InadTexts == {X_0, X_30, X_50, X_menos_1, X_nan}
IndicatorTrees ==
    {filing(ativo, disponib, carteira, aquis, cred_inad, dicred_inad) :
        ativo \in {X_0, X_100, X_menos_1, X_inf, X_nan},
        disponib \in {X_0, X_200, X_inf},
        carteira \in {X_0, X_80},
        aquis \in {X_0, X_40, X_menos_1, X_inf},
        cred_inad \in InadTexts,
        dicred_inad \in InadTexts}

\* process_and_validate on a batch of two: the table of a failed row and the parsed row
validated(r) ==
    IF r.sucesso
    THEN apply_all_validations(
             DataFrame(<<[CNPJ_FUNDO |-> CNPJ_A, STATUS |-> "ERRO_BUSCA",
                          MENSAGEM_ERRO |-> "Nenhum documento encontrado"], r.value>>))
    ELSE None

CallIndicadores(root) ==
    /\ pc = "indicadores"
    /\ pc' = "indicadores_done"
    /\ last_call' = [op |-> "indicadores", root |-> root,
                     r |-> parse_root(root, CNPJ_B),
                     table |-> validated(parse_root(root, CNPJ_B)),
                     npl_calc |-> IF parse_root(root, CNPJ_B).sucesso
                                  THEN Some(calculate_npl(parse_root(root, CNPJ_B).value))
                                  ELSE None]
    /\ UNCHANGED <<cnpjs, idx, resultados, sleeps, steps, df_docs, doc, xml_content, df,
                   written, now, cache>>

InitIndicadores ==
    /\ cnpjs = << >>
    /\ pc = "indicadores"
    /\ idx = 0
    /\ resultados = << >>
    /\ sleeps = 0
    /\ now = 0
    /\ cache = EmptyDir
    /\ steps = << >>
    /\ df_docs = << >>
    /\ doc = None
    /\ xml_content = << >>
    /\ df = NoTable
    /\ last_call = NoCall
    /\ written = NoWrites

NextIndicadores == \E root \in IndicatorTrees : CallIndicadores(root)

SpecIndicadores == InitIndicadores /\ [][NextIndicadores]_vars

\* ------------------------------------------------------------------------
\* One request of the client, a day later, over a directory an earlier run
\* left behind
\* ------------------------------------------------------------------------
\* what earlier runs stored for other keys: a list for CNPJ_A2 and the bytes of filing 8
OtherEntries ==
    cache_set(cache_set(EmptyDir, DocsPrefix \o CNPJ_A2, L_sem_data, Day),
              XmlPrefix \o <<"8">>, b64_groups(B_zerado), 0)
\* the same with a list for CNPJ_A stored more than a day ago
LeftDir == cache_set(OtherEntries, DocsPrefix \o CNPJ_A, L_ok, 0)

LaterBuscar(run) ==
    /\ pc = "later"
    /\ LET r == buscar_documentos(cache, CNPJ_A, run, now) IN
       /\ cache' = r.files
       /\ last_call' = [dir |-> cache]
                           @@ Called("buscar_documentos", CNPJ_A, DocsPrefix \o CNPJ_A, r, run)
    /\ pc' = "later_done"
    /\ UNCHANGED <<ClientFrame, now>>

LaterBaixar(run) ==
    /\ pc = "later"
    /\ LET r == baixar_xml(cache, <<"7">>, run, now) IN
       /\ cache' = r.files
       /\ last_call' = [dir |-> cache]
                           @@ Called("baixar_xml", <<"7">>, XmlPrefix \o <<"7">>, r, run)
    /\ pc' = "later_done"
    /\ UNCHANGED <<ClientFrame, now>>

InitLater ==
    /\ cnpjs = << >>
    /\ pc = "later"
    /\ idx = 0
    /\ resultados = << >>
    /\ sleeps = 0
    /\ now = Day + 1
    /\ cache = LeftDir
    /\ steps = << >>
    /\ df_docs = << >>
    /\ doc = None
    /\ xml_content = << >>
    /\ df = NoTable
    /\ last_call = NoCall
    /\ written = NoWrites

NextLater ==
    \/ \E run \in RichRunsBusca : LaterBuscar(run)
    \/ \E run \in RichRunsDownload : LaterBaixar(run)

SpecLater == InitLater /\ [][NextLater]_vars

\* ========================================================================
\* Properties
\* ========================================================================
InLoop == {"discover", "filter", "select", "download", "parse"}
AfterLoop == {"dataframe", "validate", "returned", "raised"}
FailureStatuses == {"ERRO_BUSCA", "SEM_INFORME_MENSAL", "ERRO_SELECAO", "ERRO_DOWNLOAD",
                    "ERRO_PARSE", "ERRO_INESPERADO"}
LastRow == resultados[Len(resultados)]
LastStep == steps[Len(steps)]

\* C1: for every non-empty batch, whatever the per-identifier outcomes, process_and_validate
\* returns a table (it never ends by raising), and every failing identifier has a row with
\* a failure status and an error message.
C1_FailSoft ==
    cnpjs # << >> =>
        /\ pc # "raised"
        /\ pc = "returned" =>
              /\ Len(df.rows) = Len(cnpjs)
              /\ \A i \in DOMAIN df.rows :
                    df.rows[i]["STATUS"] # "SUCESSO" =>
                        /\ df.rows[i]["STATUS"] \in FailureStatuses
                        /\ df.rows[i]["MENSAGEM_ERRO"] \notin {NoMessage, NaNText, ""}

\* C2: the steps of one identifier run in the order discover, filter, select, download,
\* parse; a step runs only if every earlier one succeeded; a row is a success exactly when
\* all five succeeded, and the status of a row tells which step failed, one status per step.
StepOrder == <<"discover", "filter", "select", "download", "parse">>
StatusOfStep == <<"ERRO_BUSCA", "SEM_INFORME_MENSAL", "ERRO_SELECAO", "ERRO_DOWNLOAD", "ERRO_PARSE">>
C2_StepOrder ==
    /\ Len(steps) <= 5
    /\ \A k \in DOMAIN steps : steps[k].step = StepOrder[k]
    /\ \A k \in DOMAIN steps : k < Len(steps) => steps[k].ok
    /\ \A k \in DOMAIN steps : steps[k].http => steps[k].step \in {"discover", "download"}
    /\ (pc \in {"sleep", "dataframe"} /\ resultados # << >>) =>
          /\ steps # << >>
          /\ LastRow.STATUS = "SUCESSO" <=> (Len(steps) = 5 /\ LastStep.ok)
          /\ \A k \in 1..5 :
                LastRow.STATUS = StatusOfStep[k] <=> (Len(steps) = k /\ ~LastStep.ok)
C2_Witness ==
    /\ pc = "sleep"
    /\ LastRow.STATUS = "ERRO_DOWNLOAD"
    /\ Len(steps) = 4
    /\ steps[4].http

\* C6: identifiers are processed in input order, one at a time; the table process_batch
\* returns, and the validated table, have one row per identifier, row i for identifier i.
RowOf(row, c) ==
    /\ row["CNPJ_FUNDO"] \in {c, Tree_fundo[P_NR_CNPJ_FUNDO]}
    /\ row["STATUS"] # "SUCESSO" => row["CNPJ_FUNDO"] = c
TableOf(t) ==
    /\ Len(t.rows) = Len(cnpjs)
    /\ \A i \in DOMAIN t.rows :
          /\ RowOf(t.rows[i], cnpjs[i])
          /\ t.rows[i]["STATUS"] = resultados[i].STATUS
          /\ t.rows[i]["MENSAGEM_ERRO"] = resultados[i].MENSAGEM_ERRO
C6_InputOrder ==
    /\ pc \in InLoop => Len(resultados) = idx
    /\ pc = "sleep" => Len(resultados) = idx + 1
    /\ \A i \in DOMAIN resultados : RowOf(resultados[i], cnpjs[i])
    /\ pc \in {"validate", "returned"} => TableOf(df)
C6_Witness ==
    /\ pc = "returned"
    /\ cnpjs = <<CNPJ_B, CNPJ_A>>
    /\ df.rows[1]["STATUS"] = "ERRO_BUSCA"
    /\ df.rows[2]["STATUS"] = "SUCESSO"

\* C7: over n >= 1 identifiers the delay is taken once after each identifier but the last
\* (n - 1 in all), also after an identifier served from the cache or failed; an
\* identifier starts only after the delay following its predecessor; none follows the last.
C7_Delays ==
    /\ pc \in InLoop => sleeps = idx /\ Len(resultados) = idx
    /\ pc = "sleep" => sleeps = idx /\ idx < Len(cnpjs) - 1
    /\ (pc \in AfterLoop /\ cnpjs # << >>) => sleeps = Len(cnpjs) - 1
    /\ now = sleeps * DELAY_ENTRE_REQUISICOES
C7_Witness ==
    /\ pc = "discover"
    /\ sleeps = 1
    /\ resultados[1].STATUS = "SUCESSO"
    /\ cache = WarmCache

\* C3 as stated: a call issues at most 3 HTTP attempts, and a server answering 503 to the
\* first three attempts and 200 to a fourth makes the call fail.
Leading503(run, n) == Len(run) >= n /\ \A i \in 1..n : run[i] = Status(503)
C3_ThreeAttempts ==
    pc = "http_done" =>
        /\ last_call.attempts <= 3
        /\ (Leading503(last_call.run, 3) /\ Len(last_call.run) = 4 /\ last_call.run[4].code = 200)
               => ~last_call.sucesso

\* C3 amended: a call issues at most 4 HTTP attempts (the first and 3 retries); a server
\* answering 503 to the first four attempts makes the call fail with a retry error, and
\* one answering 503 to three attempts and then 200 with a usable body makes it succeed
\* at the fourth attempt.
Usable(op, content) ==
    IF op = "baixar_xml" THEN content \in Bodies \ {B_truncado} ELSE content \in DataLists \ {<< >>}
C3_FourAttempts ==
    pc = "http_done" =>
        /\ last_call.attempts <= 4
        /\ Leading503(last_call.run, 4) =>
              /\ ~last_call.sucesso
              /\ last_call.attempts = 4
              /\ last_call.erro = IF last_call.op = "baixar_xml" THEN "Erro download: RetryError"
                                  ELSE "Erro busca: RetryError"
        /\ (Leading503(last_call.run, 3) /\ Len(last_call.run) = 4 /\ last_call.run[4].code = 200
                /\ Usable(last_call.op, last_call.run[4].content))
               => last_call.sucesso /\ last_call.attempts = 4
C3_Witness ==
    /\ pc = "http_done"
    /\ last_call.op = "baixar_xml"
    /\ last_call.run = <<Status(503), Status(503), Status(503), Ok(B_fundo)>>
    /\ last_call.sucesso
    /\ last_call.attempts = 4

\* C4: an attempt is repeated only after a connection failure, a timeout or a status 429,
\* 500, 502, 503 or 504; any other HTTP error status ends the call at that attempt (at the
\* first attempt when it is the first answer) with an error result.
Retryable(a) ==
    \/ a.kind \in {"timeout", "connection"}
    \/ a.kind = "status" /\ a.code \in {429, 500, 502, 503, 504}
OtherHttpError(a) == a.kind = "status" /\ a.code >= 400 /\ a.code < 600 /\ ~Retryable(a)
Taxonomy(status) ==
    CASE status = "SUCESSO" -> "SUCCESS"
      [] status = "ERRO_BUSCA" -> "NO_DOCUMENTS"
      [] status = "SEM_DOCUMENTOS" -> "NO_DOCUMENTS"
      [] status = "SEM_INFORME_MENSAL" -> "NO_MONTHLY_FILING"
      [] status = "ERRO_SELECAO" -> "NO_VALID_DATE"
      [] status = "ERRO_DOWNLOAD" -> "DOWNLOAD_ERROR"
      [] status = "ERRO_PARSE" -> "PARSE_ERROR"
      [] status = "TIMEOUT" -> "TIMEOUT"
      [] status = "ERRO_CONEXAO" -> "CONNECTION_ERROR"
      [] status = "ERRO_INESPERADO" -> "UNEXPECTED_ERROR"
      [] OTHER -> "?"
NineStatuses == {"SUCCESS", "NO_DOCUMENTS", "NO_MONTHLY_FILING", "NO_VALID_DATE", "DOWNLOAD_ERROR",
                 "PARSE_ERROR", "TIMEOUT", "CONNECTION_ERROR", "UNEXPECTED_ERROR"}
TimeoutMessages == {"Erro busca: ConnectionError(ReadTimeout)", "Erro download: ConnectionError(ReadTimeout)"}
ConnectionMessages == {"Erro busca: ConnectionError", "Erro download: ConnectionError"}
C5_NineStatuses ==
    \A i \in DOMAIN resultados :
        LET row == resultados[i] IN
        /\ Taxonomy(row.STATUS) \in NineStatuses
        /\ row.MENSAGEM_ERRO = "Nenhum documento encontrado" => Taxonomy(row.STATUS) = "NO_DOCUMENTS"
        /\ row.MENSAGEM_ERRO \in TimeoutMessages => Taxonomy(row.STATUS) = "TIMEOUT"
        /\ row.MENSAGEM_ERRO \in ConnectionMessages => Taxonomy(row.STATUS) = "CONNECTION_ERROR"

\* C5 amended: every row has one of the seven statuses SUCESSO, ERRO_BUSCA,
\* SEM_INFORME_MENSAL, ERRO_SELECAO, ERRO_DOWNLOAD, ERRO_PARSE, ERRO_INESPERADO; an empty
\* discovery response, a timeout and a connection failure of the discovery request are all
\* ERRO_BUSCA, and a timeout or connection failure of the download request is
\* ERRO_DOWNLOAD (the cause is told by the error message only).
C5_SevenStatuses ==
    \A i \in DOMAIN resultados :
        LET row == resultados[i] IN
        /\ row.STATUS \in {"SUCESSO"} \cup FailureStatuses
        /\ row.MENSAGEM_ERRO \in {"Nenhum documento encontrado",
                                  "Erro busca: ConnectionError(ReadTimeout)",
                                  "Erro busca: ConnectionError"} => row.STATUS = "ERRO_BUSCA"
        /\ row.MENSAGEM_ERRO \in {"Erro download: ConnectionError(ReadTimeout)",
                                  "Erro download: ConnectionError"} => row.STATUS = "ERRO_DOWNLOAD"
C5_Witness ==
    /\ Len(resultados) = 2
    /\ resultados[1].MENSAGEM_ERRO = "Nenhum documento encontrado"
    /\ resultados[2].MENSAGEM_ERRO = "Erro busca: ConnectionError(ReadTimeout)"
    /\ resultados[1].STATUS = resultados[2].STATUS

\* C8: a discover made while the entry docs_<id> is at most 24 hours old returns the
\* cached list without any HTTP request and leaves the entry alone; one made when the
\* entry is older issues a request and, when it succeeds, overwrites the entry with the
\* new list, written at the time of the call.
DocsKey(c) == DocsPrefix \o c
C8_DocsMaxAge ==
    (last_call.op = "buscar_documentos" /\ last_call.before # None) =>
        LET e == last_call.before[1]
            age == last_call.at - e.mtime
        IN IF age <= 86400
           THEN /\ last_call.attempts = 0
                /\ last_call.sucesso
                /\ last_call.value = e.data[2]
                /\ entry_of(cache, DocsKey(last_call.arg)) = last_call.before
           ELSE /\ last_call.attempts >= 1
                /\ last_call.sucesso =>
                      entry_of(cache, DocsKey(last_call.arg))
                          = Some([data |-> <<"pickle", last_call.value>>, mtime |-> last_call.at])
                /\ ~last_call.sucesso => entry_of(cache, DocsKey(last_call.arg)) = last_call.before
C8_Witness ==
    /\ last_call.op = "buscar_documentos"
    /\ last_call.before # None
    /\ last_call.at - last_call.before[1].mtime > 86400
    /\ last_call.sucesso
    /\ last_call.value # last_call.before[1].data[2]

\* C9: once xml_<filingId> is stored it never changes, and every later download of that
\* filing returns the stored bytes without any HTTP request, whatever time has passed
\* and whatever other calls were made.
XmlKey(d) == XmlPrefix \o d
C9_HitReturnsStored ==
    (last_call.op = "baixar_xml" /\ last_call.before # None) =>
        /\ last_call.attempts = 0
        /\ last_call.sucesso
        /\ last_call.value = last_call.before[1].data[2]
C9_EntryKept ==
    \A d \in DocIds :
        entry_of(cache, XmlKey(d)) # None => entry_of(cache', XmlKey(d)) = entry_of(cache, XmlKey(d))
C9_XmlImmutable == [](C9_HitReturnsStored) /\ [][C9_EntryKept]_vars
C9_Witness ==
    /\ last_call.op = "baixar_xml"
    /\ last_call.before # None
    /\ last_call.at > 86400
    /\ last_call.value = b64_groups(B_fundo)

\* C10: after set(k, v) at time t with no later set or delete of k, get(k, maxAge) returns
\* v when now - t <= maxAge and absent when now - t > maxAge, get(k) returns v at any later
\* time, get of a key never set returns absent, and a later set(k, v2) makes get return v2.
C10_GetAfterSet ==
    last_call.op = "get" =>
        LET w == written[last_call.key] IN
        IF w = None THEN last_call.result = None
        ELSE IF last_call.max_age # None /\ now - w[1].at > last_call.max_age[1]
             THEN last_call.result = None
             ELSE last_call.result = Some(w[1].value)

\* C11: a read of a corrupt or unreadable cache entry gives None, a discover or download
\* over such an entry gives exactly the result of the same call over an empty directory
\* (request issued, success possible), also when the file cannot be rewritten.
Damaged(e) == e # None /\ e[1].data[1] # "pickle"
OnMiss(call) ==
    IF call.op = "buscar_documentos" THEN buscar_documentos(EmptyDir, call.arg, call.run, call.at)
    ELSE baixar_xml(EmptyDir, call.arg, call.run, call.at)
SameOutcome(call, r) ==
    /\ call.sucesso = r.sucesso
    /\ call.value = r.value
    /\ call.erro = r.erro
    /\ call.attempts = r.attempts
C11_FailOpen ==
    /\ \A key \in {DocsPrefix \o CNPJ_A, XmlPrefix \o <<"7">>} :
           Damaged(entry_of(cache, key)) =>
               /\ cache_get(cache, key, None, now) = None
               /\ cache_get(cache, key, Some(MaxAgeDocs), now) = None
    /\ (last_call.op # "none" /\ Damaged(last_call.before)) =>
           /\ last_call.attempts >= 1
           /\ SameOutcome(last_call, OnMiss(last_call))
C11_Witness ==
    /\ last_call.op = "buscar_documentos"
    /\ last_call.before = Some([data |-> Denied, mtime |-> 0])
    /\ last_call.sucesso
    /\ last_call.value = L_ok
    /\ entry_of(cache, DocsPrefix \o CNPJ_A) = last_call.before

\* C20: converter_valor returns the number that a text in the Brazilian format denotes
\* ("1.234.567,89" gives 1234567.89), returns 0.0 for an empty or blank text or None, and
\* returns 0.0, without raising, for a text that float() rejects after the substitution.
C20_ConverterValor ==
    last_call.op = "converter_valor" =>
        /\ \A n \in BrazilianNumbers :
               last_call.texto = brazilian_text(n) => last_call.value = denoted(n)
        /\ last_call.texto \in BlankTexts \cup UnparseableTexts => last_call.value = 0

C20_Witness ==
    /\ last_call.op = "converter_valor"
    /\ last_call.texto = <<"1", ".", "2", "3", "4", ".", "5", "6", "7", ",", "8", "9">>
    /\ last_call.value = 123456789

\* the element of the looked-up path has text
HasText(call) == call.caminho \in DOMAIN call.root /\ Len(call.root[call.caminho]) > 0
IsText(v, s) == "text" \in DOMAIN v /\ v.text = s
IsFloat(v, x) == "num" \in DOMAIN v /\ v.num = x

\* C14 (as stated): buscar_valor_xml returns the trimmed text ("" when the element is absent
\* or empty) if the path begins with one of the text prefixes, and otherwise a float, the
\* locale conversion of the text (0.0 when absent, empty or not parseable).
C14_TypeByPrefix ==
    last_call.op = "buscar_valor_xml" =>
        IF \E x \in TextMarkers : startswith(last_call.caminho, x)
        THEN IsText(last_call.value,
                    IF HasText(last_call) THEN str_strip(last_call.root[last_call.caminho])
                    ELSE << >>)
        ELSE IsFloat(last_call.value,
                     IF HasText(last_call) THEN converter_valor(last_call.root[last_call.caminho])
                     ELSE 0)

\* C14 (amended): buscar_valor_xml returns the trimmed text ("" when the element is absent
\* or empty) if the path contains one of the text markers anywhere; otherwise it returns
\* the locale conversion of the element's text when there is text, and when there is none
\* it returns 0.0 if the path has a '/' or begins with VL_, QT_, PR_ or TX_, and "" if not.
C14_TypeByMarker ==
    last_call.op = "buscar_valor_xml" =>
        IF \E x \in TextMarkers : str_in(x, last_call.caminho)
        THEN IsText(last_call.value,
                    IF HasText(last_call) THEN str_strip(last_call.root[last_call.caminho])
                    ELSE << >>)
        ELSE IF HasText(last_call)
        THEN IsFloat(last_call.value, converter_valor(last_call.root[last_call.caminho]))
        ELSE IF str_in(<<"/">>, last_call.caminho)
                \/ \E x \in NumericPrefixes : startswith(last_call.caminho, x)
        THEN IsFloat(last_call.value, 0)
        ELSE IsText(last_call.value, << >>)

C14_Witness ==
    /\ last_call.op = "buscar_valor_xml"
    /\ last_call.caminho = P_NR_CNPJ_ADM
    /\ last_call.root = (P_NR_CNPJ_ADM :> <<" ", "1", "2", " ">>)
    /\ last_call.value = [text |-> <<"1", "2">>]

\* a fraction that is a number in [0, 1], and one that is >= 0 (inf included, nan not)
InUnitInterval(r) == r.d > 0 /\ 0 <= r.n /\ r.n <= r.d
NonNegative(r) == (r.d > 0 /\ r.n >= 0) \/ (r.d = 0 /\ r.n > 0)
Parsed == last_call.op \in {"parse", "parse_root"} /\ last_call.r.sucesso

\* C16: in every snapshot that parse produces the NPL decimal lies in [0, 1] and the NPL
\* percentage is >= 0, and both are 0 unless the acquired receivables and the
\* consolidated delinquency are both > 0.
C16_NplRange ==
    Parsed =>
        /\ InUnitInterval(last_call.r.value.INDICE_NPL_DECIMAL)
        /\ NonNegative(last_call.r.value.INDICE_NPL_PERCENTUAL)
        /\ ~(greater_than_0(last_call.r.value.CARTEIRA_BRUTA)
              /\ greater_than_0(last_call.r.value.INADIMPLENCIA_TOTAL))
           => /\ last_call.r.value.INDICE_NPL_DECIMAL = Zero
              /\ last_call.r.value.INDICE_NPL_PERCENTUAL = Zero

\* C19: field lookup ignores XML namespaces: parse of a filing whose elements are
\* namespace-qualified yields the same field values as parse of the same filing written
\* without namespaces.
C19_NamespaceIgnored ==
    last_call.op = "parse" /\ last_call.xml = b64_groups(B_fundo_ns) =>
        last_call.r = parse(b64_groups(B_fundo), last_call.cnpj_fallback)

\* C13: convert_numeric_columns leaves every value of a column that is already numeric
\* unchanged, leaves the columns that are not listed unchanged, and does not modify the
\* table it was given.
C13_NumericUnchanged ==
    last_call.op = "convert_numeric_columns" =>
        /\ df = last_call.before
        /\ last_call.returned.columns = last_call.before.columns
        /\ DOMAIN last_call.returned.rows = DOMAIN last_call.before.rows
        /\ \A i \in DOMAIN last_call.before.rows : \A c \in last_call.before.columns :
               c \notin last_call.columns \/ is_numeric_dtype(c)
                   => last_call.returned.rows[i][c] = last_call.before.rows[i][c]

C13_Witness ==
    /\ last_call.op = "convert_numeric_columns"
    /\ last_call.columns = {"ID_DOCUMENTO", "DISPONIBILIDADES", "INDICE_NPL_DECIMAL"}
    /\ Len(last_call.before.rows) = 1
    /\ last_call.before.rows[1]["INDICE_NPL_DECIMAL"] = Tiny
    /\ last_call.returned.rows[1]["INDICE_NPL_DECIMAL"] = Tiny
    /\ last_call.before.rows[1]["DISPONIBILIDADES"] = -100
    /\ last_call.returned.rows[1]["DISPONIBILIDADES"] = -100
    /\ last_call.before.rows[1]["ID_DOCUMENTO"] = <<" ", "-", " ">>
    /\ last_call.returned.rows[1]["ID_DOCUMENTO"] = 0

\* the locale conversion of the text of one element of the filing (0.0 when absent)
Converted(root, caminho) ==
    IF caminho \in DOMAIN root THEN converter_valor(root[caminho]) ELSE 0
Delinquency(root) ==
    max2(Converted(root, P_VL_CRED_EXISTE_INAD), Converted(root, P_VL_DICRED_EXISTE_INAD))

\* C12: through extraction, derivation, table construction, numeric normalization and
\* validation the locale conversion is applied only to text read from the filing: every
\* raw numeric field of the final row is the conversion of its element's text, applied
\* once, and every derived value is computed from those numbers by arithmetic alone, never
\* by turning a number into text and converting it again.
C12_OnlyFilingText ==
    last_call.op = "pipeline" =>
        /\ last_call.table # None
        /\ Len(last_call.table[1].rows) = 1
        /\ LET row == last_call.table[1].rows[1] IN
           /\ row["ATIVO_TOTAL"] = Converted(last_call.root, P_VL_SOM_APLIC_ATIVO)
           /\ row["DISPONIBILIDADES"] = Converted(last_call.root, P_VL_DISPONIB)
           /\ row["CARTEIRA_TOTAL"] = Converted(last_call.root, P_VL_CARTEIRA)
           /\ row["CREDITOS_ADQUIRIDOS"] = Converted(last_call.root, P_VL_SOM_DICRED_AQUIS)
           /\ row["CARTEIRA_BRUTA"] = Converted(last_call.root, P_VL_SOM_DICRED_AQUIS)
           /\ row["INADIMPLENCIA_TOTAL"] = Delinquency(last_call.root)
           /\ row["INDICE_NPL_PERCENTUAL"]
                  = npl_percent(Delinquency(last_call.root),
                                Converted(last_call.root, P_VL_SOM_DICRED_AQUIS))
           /\ row["INDICE_NPL_DECIMAL"]
                  = indice_npl_decimal(Delinquency(last_call.root),
                                       Converted(last_call.root, P_VL_SOM_DICRED_AQUIS))

C12_Witness ==
    /\ last_call.op = "pipeline"
    /\ last_call.root = Tree_fundo
    /\ last_call.table # None
    /\ last_call.table[1].rows[1]["INADIMPLENCIA_TOTAL"] = 4000000
    /\ last_call.table[1].rows[1]["CARTEIRA_BRUTA"] = 80000000
    /\ last_call.table[1].rows[1]["INDICE_NPL_DECIMAL"] = Ratio(40000, 800000)

\* C15: every row of the final table, successful or failed, carries a fund identifier of
\* exactly 14 decimal digits, the normalisation (digits only, truncated or left-padded with
\* zeros to 14) of the input identifier or of the filing's NR_CNPJ_FUNDO.
C15_FourteenDigits ==
    pc = "returned" =>
        \A i \in DOMAIN df.rows :
            /\ Len(df.rows[i]["CNPJ_FUNDO"]) = 14
            /\ all_digits(df.rows[i]["CNPJ_FUNDO"])
            /\ df.rows[i]["CNPJ_FUNDO"]
                   \in {clean_cnpj(cnpjs[i]), clean_cnpj(Tree_fundo[P_NR_CNPJ_FUNDO])}

ValueIn(t, id, field) ==
    (CHOOSE row \in {t.rows[i] : i \in DOMAIN t.rows} : row["CNPJ_FUNDO"] = id)[field].num
NumericIn(t, field) ==
    /\ field \in t.columns
    /\ field # "CNPJ_FUNDO"
    /\ \A i \in DOMAIN t.rows : "num" \in DOMAIN t.rows[i][field]
Ids(t) == {t.rows[i]["CNPJ_FUNDO"] : i \in DOMAIN t.rows}
Delta(v1, v2) == IF v1 = NaN THEN v2 ELSE IF v2 = NaN THEN -v1 ELSE v2 - v1

ReferenceDate(d) ==
    IF "dataReferencia" \notin DOMAIN d THEN None
    ELSE CASE d.dataReferencia = R_jan -> Some(<<2024, 1, 1>>)
           [] d.dataReferencia = R_dez -> Some(<<2023, 12, 1>>)
           [] d.dataReferencia = R_15_jan -> Some(<<2024, 1, 15>>)
           [] OTHER -> None
NotAfter(a, b) ==
    \/ a[1] < b[1]
    \/ a[1] = b[1] /\ a[2] < b[2]
    \/ a[1] = b[1] /\ a[2] = b[2] /\ a[3] <= b[3]
Parseable(rows) == {i \in DOMAIN rows : ReferenceDate(rows[i]) # None}

\* C21: selecionar_documento_mais_recente always returns a result (it never raises); it
\* succeeds exactly when some descriptor has a reference period that reads as MM/YYYY or
\* DD/MM/YYYY, and then the descriptor returned is one of those and no other of those has
\* a later date, whatever malformed entries the list holds; when the list has the
\* dataReferencia column and no period reads, the failure is "Nenhuma data valida
\* encontrada".
C21_SelectLatest ==
    last_call.op = "selecionar_documento_mais_recente" =>
        /\ last_call.sucesso <=> Parseable(last_call.arg) # {}
        /\ last_call.sucesso =>
               \E i \in Parseable(last_call.arg) :
                   /\ last_call.doc = Some(last_call.arg[i])
                   /\ \A j \in Parseable(last_call.arg) :
                          NotAfter(ReferenceDate(last_call.arg[j])[1],
                                   ReferenceDate(last_call.arg[i])[1])
        /\ ~last_call.sucesso => last_call.doc = None
        /\ (/\ ~last_call.sucesso
            /\ \E i \in DOMAIN last_call.arg : "dataReferencia" \in DOMAIN last_call.arg[i])
               => last_call.erro = "Nenhuma data valida encontrada"

\* a list with a malformed period, a month period and a later day period: the day
\* period's descriptor is selected
C21_Witness ==
    /\ last_call.op = "selecionar_documento_mais_recente"
    /\ last_call.arg = <<descriptor(<<"7">>, Some(InformeMensal), Some(<<"A">>), Some(R_na)),
                         descriptor(<<"7">>, Some(InformeMensal), Some(<<"A">>), Some(R_jan)),
                         descriptor(<<"7">>, Some(InformeMensal), Some(<<"A">>), Some(R_15_jan))>>
    /\ last_call.sucesso
    /\ last_call.doc = Some(last_call.arg[3])

\* a descriptor of a monthly filing in active status, by its texts
MonthlyActive(d) ==
    /\ "tipoDocumento" \in DOMAIN d
    /\ d.tipoDocumento \in {InformeMensal, T_minusculas}
    /\ "situacaoDocumento" \in DOMAIN d
    /\ d.situacaoDocumento \in {<<"A">>, <<" ", "a">>}

\* C22: filtrar_informe_mensal succeeds exactly when some descriptor is an active monthly
\* filing, and then returns exactly those descriptors in their original order; when both
\* columns exist and none is, the failure is "Nenhum Informe Mensal encontrado"; the
\* descriptor selection gets from the filter, and the one it returns, are active monthly
\* filings.
C22_FilterMonthly ==
    /\ last_call.op = "filtrar_informe_mensal" =>
        /\ last_call.r.sucesso <=> SelectSeq(last_call.arg, MonthlyActive) # << >>
        /\ last_call.r.sucesso => last_call.r.value = SelectSeq(last_call.arg, MonthlyActive)
        /\ (/\ ~last_call.r.sucesso
            /\ {"tipoDocumento", "situacaoDocumento"} \subseteq columns_of(last_call.arg))
               => last_call.r.erro = "Nenhum Informe Mensal encontrado"
    /\ last_call.op = "filtrar_e_selecionar" =>
        /\ last_call.STATUS = "SEM_INFORME_MENSAL"
               <=> SelectSeq(last_call.arg, MonthlyActive) = << >>
        /\ last_call.STATUS # "SEM_INFORME_MENSAL"
               => last_call.df_mensal = SelectSeq(last_call.arg, MonthlyActive)
        /\ last_call.doc # None => MonthlyActive(last_call.doc[1])

\* a cancelled monthly filing, a lower-case active one and an active one: the last two
\* are returned in that order
C22_Witness ==
    /\ last_call.op = "filtrar_informe_mensal"
    /\ last_call.arg = <<descriptor(<<"7">>, Some(InformeMensal), Some(<<"C">>), Some(R_jan)),
                         descriptor(<<"7">>, Some(T_minusculas), Some(<<" ", "a">>), Some(R_jan)),
                         descriptor(<<"7">>, Some(InformeMensal), Some(<<"A">>), Some(R_jan))>>
    /\ last_call.r.sucesso
    /\ last_call.r.value = <<last_call.arg[2], last_call.arg[3]>>

\* the float a fraction n/d (d >= 0) stands for, compared by value
Kind(r) == IF r.d # 0 THEN "finite" ELSE IF r.n = 0 THEN "nan" ELSE IF r.n > 0 THEN "inf" ELSE "-inf"
SameValue(a, b) == Kind(a) = Kind(b) /\ (Kind(a) = "finite" => a.n * b.d = b.n * a.d)
IsZero(r) == r.d # 0 /\ r.n = 0
\* float comparison a >= b: False when either is nan
AtLeast(a, b) == a # NaN /\ b # NaN /\ a >= b
Derived == last_call.op = "indicadores" /\ last_call.r.sucesso

\* the same filing with the two delinquency measurements exchanged
Exchanged(root) ==
    filing(root[P_VL_SOM_APLIC_ATIVO], root[P_VL_DISPONIB], root[P_VL_CARTEIRA],
           root[P_VL_SOM_DICRED_AQUIS], root[P_VL_DICRED_EXISTE_INAD],
           root[P_VL_CRED_EXISTE_INAD])

\* C23: in every snapshot the consolidated delinquency is one of the two reported
\* measurements, is greater than or equal to both, and is the same when the two
\* measurements are exchanged.
C23_ConsolidatedMax ==
    Derived =>
        /\ last_call.r.value.INADIMPLENCIA_TOTAL
               \in {Converted(last_call.root, P_VL_CRED_EXISTE_INAD),
                    Converted(last_call.root, P_VL_DICRED_EXISTE_INAD)}
        /\ AtLeast(last_call.r.value.INADIMPLENCIA_TOTAL,
                   Converted(last_call.root, P_VL_CRED_EXISTE_INAD))
        /\ AtLeast(last_call.r.value.INADIMPLENCIA_TOTAL,
                   Converted(last_call.root, P_VL_DICRED_EXISTE_INAD))
        /\ last_call.r.value.INADIMPLENCIA_TOTAL
               = parse_root(Exchanged(last_call.root), CNPJ_B).value.INADIMPLENCIA_TOTAL

\* the float x / ativo * 100 for ativo > 0, by value
IsPercentOf(pct, x, ativo) ==
    IF x = NaN THEN Kind(pct) = "nan"
    ELSE IF ativo = Inf THEN (IF x = Inf THEN Kind(pct) = "nan" ELSE IsZero(pct))
    ELSE IF x = Inf THEN Kind(pct) = "inf"
    ELSE Kind(pct) = "finite" /\ pct.n * ativo = 100 * x * pct.d
\* percentage = 100 * decimal, by value
IsHundredTimes(pct, decimal) ==
    Kind(pct) = Kind(decimal) /\ (Kind(pct) = "finite" => pct.n * decimal.d = 100 * decimal.n * pct.d)

\* C24: in every snapshot the liquidity and credit-concentration decimals are the
\* percentages divided by 100, unclamped; when total assets > 0 the percentages are
\* available funds / total assets * 100 and acquired receivables / total assets * 100, and
\* when total assets <= 0 all four are 0.
C24_RatiosUnclamped ==
    Derived =>
        /\ IsHundredTimes(last_call.r.value.TAXA_LIQUIDEZ_PERCENTUAL,
                          last_call.r.value.TAXA_LIQUIDEZ_DECIMAL)
        /\ IsHundredTimes(last_call.r.value.CONCENTRACAO_CREDITO_PERCENTUAL,
                          last_call.r.value.CONCENTRACAO_CREDITO_DECIMAL)
        /\ greater_than_0(Converted(last_call.root, P_VL_SOM_APLIC_ATIVO)) =>
              /\ IsPercentOf(last_call.r.value.TAXA_LIQUIDEZ_PERCENTUAL,
                             Converted(last_call.root, P_VL_DISPONIB),
                             Converted(last_call.root, P_VL_SOM_APLIC_ATIVO))
              /\ IsPercentOf(last_call.r.value.CONCENTRACAO_CREDITO_PERCENTUAL,
                             Converted(last_call.root, P_VL_SOM_DICRED_AQUIS),
                             Converted(last_call.root, P_VL_SOM_APLIC_ATIVO))
        /\ (/\ Converted(last_call.root, P_VL_SOM_APLIC_ATIVO) # NaN
            /\ Converted(last_call.root, P_VL_SOM_APLIC_ATIVO) <= 0) =>
              /\ IsZero(last_call.r.value.TAXA_LIQUIDEZ_PERCENTUAL)
              /\ IsZero(last_call.r.value.TAXA_LIQUIDEZ_DECIMAL)
              /\ IsZero(last_call.r.value.CONCENTRACAO_CREDITO_PERCENTUAL)
              /\ IsZero(last_call.r.value.CONCENTRACAO_CREDITO_DECIMAL)

\* available funds of 200,00 against total assets of 100,00: liquidity 200% and 2.0
C24_Witness ==
    /\ Derived
    /\ last_call.root = filing(X_100, X_200, X_80, X_40, X_30, X_0)
    /\ SameValue(last_call.r.value.TAXA_LIQUIDEZ_PERCENTUAL, Ratio(200, 1))
    /\ SameValue(last_call.r.value.TAXA_LIQUIDEZ_DECIMAL, Ratio(2, 1))
    /\ SameValue(last_call.r.value.CONCENTRACAO_CREDITO_DECIMAL, Ratio(2, 5))

\* C27: for every snapshot parse produces, calculate_npl applied to its row equals the
\* snapshot's NPL decimal.
C27_BulkAgrees ==
    Derived => SameValue(last_call.npl_calc[1], last_call.r.value.INDICE_NPL_DECIMAL)

\* C29: in the validated table every successfully parsed row flagged
\* CARTEIRA_BRUTA_ZERO_COM_INAD_FLAG has NPL percentage and decimal 0, every one flagged
\* ATIVO_ZERO_FLAG has liquidity and credit-concentration ratios 0, and no row has both
\* ATIVO_ZERO_FLAG and SEM_POSICAO_FLAG.
C29_FlagsAndRatios ==
    (last_call.op = "indicadores" /\ last_call.table # None) =>
        \A i \in DOMAIN last_call.table[1].rows :
            /\ ~(last_call.table[1].rows[i]["ATIVO_ZERO_FLAG"]
                  /\ last_call.table[1].rows[i]["SEM_POSICAO_FLAG"])
            /\ last_call.table[1].rows[i]["STATUS"] = "SUCESSO" =>
                /\ last_call.table[1].rows[i]["CARTEIRA_BRUTA_ZERO_COM_INAD_FLAG"] =>
                      /\ IsZero(last_call.table[1].rows[i]["INDICE_NPL_PERCENTUAL"])
                      /\ IsZero(last_call.table[1].rows[i]["INDICE_NPL_DECIMAL"])
                /\ last_call.table[1].rows[i]["ATIVO_ZERO_FLAG"] =>
                      /\ IsZero(last_call.table[1].rows[i]["TAXA_LIQUIDEZ_PERCENTUAL"])
                      /\ IsZero(last_call.table[1].rows[i]["TAXA_LIQUIDEZ_DECIMAL"])
                      /\ IsZero(last_call.table[1].rows[i]["CONCENTRACAO_CREDITO_PERCENTUAL"])
                      /\ IsZero(last_call.table[1].rows[i]["CONCENTRACAO_CREDITO_DECIMAL"])

\* a filing with zero assets, zero acquired receivables and delinquency of 50,00: its row is
\* flagged for both and all its ratios are 0
C29_Witness ==
    /\ last_call.op = "indicadores"
    /\ last_call.root = filing(X_0, X_200, X_0, X_0, X_50, X_30)
    /\ last_call.table # None
    /\ last_call.table[1].rows[2]["STATUS"] = "SUCESSO"
    /\ last_call.table[1].rows[2]["INADIMPLENCIA_TOTAL"] = 5000
    /\ last_call.table[1].rows[2]["CARTEIRA_BRUTA_ZERO_COM_INAD_FLAG"]
    /\ last_call.table[1].rows[2]["ATIVO_ZERO_FLAG"]
    /\ ~last_call.table[1].rows[2]["SEM_POSICAO_FLAG"]
    /\ IsZero(last_call.table[1].rows[2]["INDICE_NPL_DECIMAL"])
    /\ IsZero(last_call.table[1].rows[2]["TAXA_LIQUIDEZ_DECIMAL"])

\* C25: a get leaves the directory as it was: every entry keeps its payload and its write
\* time, so right after a get of a stored key, also one that judged the entry expired, a
\* get of that key with no max age returns the stored payload, and so does a get with any
\* max age the entry's age does not exceed; only set, delete and clear_all change the
\* directory.
C25_GetStep ==
    /\ cache' # cache => last_call'.op \in {"set", "delete", "clear_all"}
    /\ \A key \in CacheKeys, max_age_seconds \in MaxAges :
        CacheGet(key, max_age_seconds) =>
            /\ cache' = cache
            /\ \A k \in CacheKeys : entry_of(cache', k) = entry_of(cache, k)
            /\ entry_of(cache, key) # None =>
                  /\ cache_get(cache', key, None, now')
                         = Some(pickle_load(entry_of(cache, key)[1].data))
                  /\ \A larger \in 0..(MaxCacheNow + 1) :
                         now' - entry_of(cache, key)[1].mtime <= larger
                             => cache_get(cache', key, Some(larger), now')
                                    = Some(pickle_load(entry_of(cache, key)[1].data))
C25_GetKeepsStore == [][C25_GetStep]_vars

\* a get with a max age has just judged a stored entry expired, and the entry is still
\* there for a get with no max age
C25_Witness ==
    /\ last_call.op = "get"
    /\ last_call.max_age # None
    /\ last_call.result = None
    /\ entry_of(cache, last_call.key) # None
    /\ now - entry_of(cache, last_call.key)[1].mtime > last_call.max_age[1]
    /\ cache_get(cache, last_call.key, None, now) # None

\* C26: after a discover or download call that failed, whatever the failure (retries
\* exhausted, another HTTP error, an empty list, undecodable bytes), the directory is the
\* one before the call: every entry unchanged, no new entry; so the same call made again
\* issues a request and succeeds when the server now answers.
C26_FailureNotCached ==
    (last_call.op \in {"buscar_documentos", "baixar_xml"} /\ ~last_call.sucesso) =>
        /\ last_call.attempts >= 1
        /\ cache = last_call.dir
        /\ last_call.op = "buscar_documentos" =>
              /\ buscar_documentos(cache, last_call.arg, <<Ok(L_ok)>>, now).attempts = 1
              /\ buscar_documentos(cache, last_call.arg, <<Ok(L_ok)>>, now).sucesso
        /\ last_call.op = "baixar_xml" =>
              /\ baixar_xml(cache, last_call.arg, <<Ok(B_fundo)>>, now).attempts = 1
              /\ baixar_xml(cache, last_call.arg, <<Ok(B_fundo)>>, now).sucesso

\* a discover over an expired list whose four attempts were all answered 503: the expired
\* list and the other entries are as before
C26_Witness ==
    /\ last_call.op = "buscar_documentos"
    /\ ~last_call.sucesso
    /\ last_call.attempts = 4
    /\ last_call.before = Some([data |-> pickle_dump(L_ok), mtime |-> 0])
    /\ entry_of(cache, DocsPrefix \o CNPJ_A) = last_call.before
    /\ entry_of(cache, XmlPrefix \o <<"8">>) # None

\* C28: generate_diff_report returns normally for every pair of tables, also when a fund
\* identifier is on more than one row of a table, and its report holds at most one record
\* for each pair of identifier and field.
C28_DiffReturns ==
    last_call.op = "generate_diff_report" =>
        /\ last_call.raised = None
        /\ \A r1 \in last_call.report, r2 \in last_call.report :
               (r1.CNPJ_FUNDO = r2.CNPJ_FUNDO /\ r1.COLUNA = r2.COLUNA) => r1 = r2

\* C30: for an empty identifier list the batch does not raise: once it has ended it has
\* returned an empty table, and it has made no discovery or download request and taken
\* no delay between identifiers.
C30_EmptyBatch ==
    cnpjs = << >> =>
        /\ pc # "raised"
        /\ steps = << >>
        /\ sleeps = 0
        /\ pc = "returned" => df.rows = << >>

====
